---- MODULE Spec2Model ----
(***************************************************************************)
(* A model of app/tools/data_processing_tools.py: the document reduction   *)
(* pipeline (count_tokens, chunk_text_intelligently, summarize_text_chunk, *)
(* extract_relevant_sections, read_pdf) and the tabular path               *)
(* (find_best_column_match, analyze_csv_schema, create_query_plan,         *)
(* validate_query_result, execute_query_plan, query_csv).                  *)
(*                                                                         *)
(* TEXT.  A Python string is modelled as a sequence of units.  A unit is a *)
(* record [k, n, t]:                                                       *)
(*   k = "w"   n plain words separated by single spaces, no punctuation    *)
(*   k = "s"   a sentence of n words, the last one followed by "."         *)
(*   k = "c"   the first n letters of a word (left by a slice)             *)
(*   k = "b"   a single space                                              *)
(*   k = "P"   the paragraph break "\n\n"                                  *)
(*   k = "l"   the newline "\n" that ends a run of newlines                *)
(*   k = "H"   the structural header "\nFORM A" (newline, FORM, a name)    *)
(*   k = "h"   the header's words "FORM A", its newline split away         *)
(*   k = "R"   the rule of fifty "=" read_pdf opens its report with        *)
(*   k = "T"   the tag "[SECTION n]\n" read_pdf puts before summary n      *)
(*   k = "m"   the dashes "---" of the divider "\n\n---\n\n" the pipeline  *)
(*             joins pieces with: a break, the dashes, a break             *)
(*   k = "E"   the ellipsis "..." the summarizer's fallback appends        *)
(*   k = "d", "e", "r", "g"   dashes, an ellipsis, a rule, a tag cut short *)
(*             by a slice, n characters of it left                         *)
(* t is the word the unit repeats: "n" the filler word "data", "q" the     *)
(* query word "dosage", "r" the regulatory keyword "safety", "h" the       *)
(* header's "FORM".  Two adjacent word units are separated by one space.   *)
(* A run of twelve or more whitespace characters that starts and ends with *)
(* a newline reads as a header in capitals, as it does in the code.        *)
(*                                                                         *)
(* NUMBERS.  A token count is an int under the byte-pair encoding and an   *)
(* IEEE double under the fallback; the model keeps both as the exact value *)
(* of the double, and adds as doubles add.                                 *)
(***************************************************************************)
EXTENDS Integers, Sequences, FiniteSets, TLC

VARIABLES
    ck_pc, ck_in, ck_out,                       \* chunk_text_intelligently
    ex_pc, ex_plan, ex_env, results, step_results, con,  \* execute_query_plan
    sm_pc, sm_in, sm_out,                       \* summarize_text_chunk
    pd_pc, pd_in, pd_env, pd_text, pd_total,    \* read_pdf
    pd_chunks, pd_sums, pd_calls, pd_out,
    qc_pc, qc_in, qc_env, qc_con, qc_out,       \* query_csv
    cm_pc, cm_in, cm_out,                       \* find_best_column_match
    sa_pc, sa_in, sa_df, sa_out,                \* analyze_csv_schema
    pl_pc, pl_in, pl_out,                       \* create_query_plan
    fl_pc, fl_in, fl_out                        \* extract_relevant_sections

ck_vars == <<ck_pc, ck_in, ck_out>>
ex_vars == <<ex_pc, ex_plan, ex_env, results, step_results, con>>
sm_vars == <<sm_pc, sm_in, sm_out>>
pd_vars == <<pd_pc, pd_in, pd_env, pd_text, pd_total, pd_chunks, pd_sums,
             pd_calls, pd_out>>
qc_vars == <<qc_pc, qc_in, qc_env, qc_con, qc_out>>
cm_vars == <<cm_pc, cm_in, cm_out>>
sa_vars == <<sa_pc, sa_in, sa_df, sa_out>>
pl_vars == <<pl_pc, pl_in, pl_out>>
fl_vars == <<fl_pc, fl_in, fl_out>>
\* The functions that are called on their own: each does no input or output
\* beyond its arguments, the analyzer's one download aside.
pure_vars == <<cm_vars, sa_vars, pl_vars, fl_vars>>
\* The pipelines and their collaborators.
io_vars == <<ck_vars, ex_vars, sm_vars, pd_vars, qc_vars>>
vars == <<io_vars, pure_vars>>

\* ------------------------------------------------------------------ bounds
MaxUnits == 3
MaxChunkTok == 3
MaxSteps == 2
MaxSumUnits == 2
MaxPages == 2

\* --------------------------------------------------------------- constants
\* count_tokens' fallback is 1.3 tokens a word: counts are kept in tenths.
Tenths == 10
WordRate == 13
\* The summarizer's fallback keeps the first 2000 characters.
TruncateAt == 2000
\* The token budget of the filter and of read_pdf's two size tests.
MaxTokens == 8000
\* The filter skips a section of fewer than 50 characters once stripped.
MinSectionChars == 50
\* The filter's bonus for a section that holds the query as written.
PhraseBonus == 5
\* read_pdf chunks to 3000 tokens.
PdfChunkTokens == 3000
ScenarioTokens == 4 * PdfChunkTokens

\* ---------------------------------------------------------------- numbers
\* A token count is a Python number: an int under the byte-pair encoding, a
\* float (an IEEE double) under the fallback.  A number is the pair [t, e]
\* that stands for (t + e / 2^52) / 10: t is the count in tenths worked out
\* exactly, e the rounding error the doubles have gathered.  An int has e = 0.
Num(t, e) == [t |-> t, e |-> e]
Whole(n) == Num(Tenths * n, 0)

\* 2^52 = 10 * q + 6: the low twenty bits of q.
TenthOfUlpLow == (3 * (2^20 - 1)) \div 5

\* floor(log2(x)) for a number of at least 1, searched from e upwards: the
\* exponent of the double that holds it.
RECURSIVE Exponent(_, _)
Exponent(x, e) ==
    LET next == Tenths * 2^(e + 1)
    IN  IF (IF x.e >= 0 THEN x.t >= next ELSE x.t > next)
        THEN Exponent(x, e + 1)
        ELSE e

\* The number in units of 2^-52 is K = (t * 2^52 + e) / 10: K mod m, for m a
\* power of two up to 2^20.
Residue(x, m) ==
    LET b == x.t % 10
    IN  (b * (TenthOfUlpLow % m) + (6 * b + x.e) \div 10) % m

\* The double nearest to an exact result, a tie going to the even
\* significand: 53 bits are kept, so a number between 2^ex and 2^(ex+1) is
\* a multiple of 2^(ex-52).  A whole number is a double as it stands.
Round(x) ==
    IF x.t % Tenths = 0 /\ x.e = 0 THEN x
    ELSE LET m == 2^Exponent(x, 0)
             rem == Residue(x, m)
             up == \/ 2 * rem > m
                   \/ 2 * rem = m /\ Residue(x, 2 * m) >= m
         IN  Num(x.t, x.e + 10 * (IF up THEN m - rem ELSE 0 - rem))

\* x + y and x <= y on numbers.
Plus(x, y) == Round(Num(x.t + y.t, x.e + y.e))
AtMost(x, y) == x.t < y.t \/ (x.t = y.t /\ x.e <= y.e)

\* n * 1.3: the double 1.3 is 1.3 + 2 / (10 * 2^52).
Times13(n) == Round(Num(WordRate * n, 2 * n))

\* ------------------------------------------------------------------- text
\* A text is a sequence of units [k, n, t]: k the kind, n a count, t the word
\* the unit repeats ("n" data, "q" dosage, "r" safety, "h" FORM).
\*   "w"  n words with a space between two     "s"  n words and a full stop
\*   "c"  the first n letters of a word        "b"  a space
\*   "P"  "\n\n"                               "l"  "\n"
\*   "H"  "\nFORM A"                           "h"  "FORM A"
\*   "m"  "---"                                "d"  n dashes, fewer than three
\*   "E"  "..."                                "e"  n full stops, fewer than three
\*   "R"  fifty "="                            "r"  n of them, fewer than fifty
\*   "T"  "[SECTION n]\n"                      "g"  a tag cut short
\* A word that follows a word, a header or an ellipsis has a space before
\* it.  A cut unit ("c", "d", "e", "r", "g"), a space and a newline that
\* came from a cut stand where a slice ended: last in a text, or before the
\* ellipsis a truncation adds.  A run of newlines is written with as many
\* "P" as fit, then "l" or, before a header's words, "H".
W(n) == [k |-> "w", n |-> n, t |-> "n"]
S(n) == [k |-> "s", n |-> n, t |-> "n"]
PBreak == [k |-> "P", n |-> 1, t |-> "n"]
Newline == [k |-> "l", n |-> 1, t |-> "n"]
Header == [k |-> "H", n |-> 1, t |-> "n"]
HeaderWords == [k |-> "h", n |-> 1, t |-> "n"]
Dash == [k |-> "m", n |-> 1, t |-> "n"]
Blank == [k |-> "b", n |-> 1, t |-> "n"]
Letters(n, t) == [k |-> "c", n |-> n, t |-> t]
\* "\n\n---\n\n"
Divider == <<PBreak, Dash, PBreak>>

IsSpace(u) == u.k \in {"P", "l", "b"}

RECURSIVE SumSeq(_)
SumSeq(s) == IF s = <<>> THEN 0 ELSE Head(s) + SumSeq(Tail(s))

\* A cut tag keeps the number it shows and its length in one count.
Digits(i) == IF i > 9 THEN 2 ELSE 1
TagCut(number, chars) == [k |-> "g", n |-> 100 * number + chars, t |-> "n"]
TagChars(u) == u.n % 100
TagNumber(u) == u.n \div 100
\* A cut tag that ends with its bracket.
Bracketed(u) == u.k = "g" /\ TagChars(u) = 10 + Digits(TagNumber(u))

\* The space that separates unit i from a word before it.
SpaceBefore(text, i) ==
    IF /\ i > 1
       /\ text[i].k \in {"w", "s", "c"}
       /\ text[i-1].k \in {"w", "s", "c", "H", "h", "E"}
    THEN 1 ELSE 0

\* The words of a unit on its own, and whether it starts and ends with a
\* character that is not whitespace.
InnerWords(u) ==
    CASE u.k \in {"w", "s"} -> u.n
      [] u.k \in {"H", "h", "T"} -> 2
      [] u.k = "g" -> IF TagChars(u) >= 10 THEN 2 ELSE 1
      [] u.k \in {"b", "P", "l"} -> 0
      [] OTHER -> 1
StartsInk(u) == u.k \notin {"b", "P", "l", "H"}
EndsInk(u) == u.k \notin {"b", "P", "l", "T"}

\* Whitespace-delimited words unit i adds to text, as text.split() sees
\* them: a unit that starts where the unit before it ends, no whitespace
\* between the two, carries that unit's last word on.
WordsAt(text, i) ==
    LET u == text[i]
        glued == /\ i > 1
                 /\ StartsInk(u) /\ EndsInk(text[i-1])
                 /\ SpaceBefore(text, i) = 0
    IN InnerWords(u) - (IF glued THEN 1 ELSE 0)

\* A unit that ends with punctuation: the punctuation and the newlines that
\* follow it are one token with it.
PunctEnd(u) ==
    \/ u.k \in {"s", "E", "e", "m", "d", "R", "r"}
    \/ u.k = "g" /\ (TagChars(u) = 1 \/ Bracketed(u))

\* Tokens unit i adds to text under the byte-pair encoding: a word is a
\* token, so is a full stop, a run of newlines, a header's newline and each
\* of its two words; a full stop, an ellipsis or a run of dashes takes the
\* punctuation and the newlines that follow it into its own token; a space
\* is a token of its own only where the text ends.
BpeTokens(text, i) ==
    LET u == text[i]
        afterStop == i > 1 /\ PunctEnd(text[i-1])
        afterBreak == i > 1 /\ text[i-1].k \in {"P", "l", "T"}
    IN CASE u.k = "w" -> u.n
         [] u.k = "s" -> u.n + 1
         [] u.k = "c" -> 1
         [] u.k = "b" -> IF i = Len(text) THEN 1 ELSE 0
         [] u.k \in {"P", "l"} -> IF afterStop \/ afterBreak THEN 0 ELSE 1
         [] u.k = "H" -> IF afterStop \/ afterBreak THEN 2 ELSE 3
         [] u.k = "h" -> 2
         [] u.k \in {"E", "e", "m", "d", "R", "r"} -> IF afterStop THEN 0 ELSE 1
         [] u.k = "T" -> 4
         [] u.k = "g" ->
                IF TagChars(u) = 1 THEN (IF afterStop THEN 0 ELSE 1)
                ELSE IF TagChars(u) < 10 THEN 1
                ELSE IF Bracketed(u) THEN 4 ELSE 3

\* count_tokens(text): len(encoding.encode(text)), an int, when tiktoken
\* answers (enc = "bpe"); len(text.split()) * 1.3, a float, when it raises
\* (enc = "fallback").
count_tokens(text, enc) ==
    IF enc = "bpe"
    THEN Whole(SumSeq([i \in 1..Len(text) |-> BpeTokens(text, i)]))
    ELSE Times13(SumSeq([i \in 1..Len(text) |-> WordsAt(text, i)]))

\* Letters of the word a unit repeats: "data", "dosage", "safety", "FORM".
WordLen(t) == IF t \in {"n", "h"} THEN 4 ELSE 6

\* Characters of one unit.
UnitChars(u) ==
    CASE u.k = "w" -> u.n * (WordLen(u.t) + 1) - 1
      [] u.k = "s" -> u.n * (WordLen(u.t) + 1)
      [] u.k \in {"c", "d", "e", "r"} -> u.n
      [] u.k \in {"b", "l"} -> 1
      [] u.k = "P" -> 2
      [] u.k = "H" -> 7
      [] u.k = "h" -> 6
      [] u.k \in {"E", "m"} -> 3
      [] u.k = "R" -> 50
      [] u.k = "T" -> 11 + Digits(u.n)
      [] u.k = "g" -> TagChars(u)

\* len(text)
Chars(text) ==
    SumSeq([i \in 1..Len(text) |-> SpaceBefore(text, i) + UnitChars(text[i])])

\* The first r characters of "FORM A", r fewer than six.
CutHeaderWords(r) ==
    IF r = 0 THEN <<>>
    ELSE IF r <= 4 THEN <<Letters(r, "h")>>
    ELSE <<Letters(4, "h"), Blank>>

\* The first r characters of the tag of section i.
CutTag(i, r) ==
    IF r <= 8 THEN <<TagCut(0, r)>>
    ELSE IF r = 9 THEN <<TagCut(0, 8), Blank>>
    ELSE IF r = 10 /\ i > 9 THEN <<TagCut(i \div 10, r)>>
    ELSE <<TagCut(i, r)>>

\* u[:r] for a unit longer than r > 0: whole words, then the space the slice
\* ends on or the letters of a word cut short; the first r characters of a
\* break, a header, dashes, an ellipsis, a rule or a tag.
CutUnit(u, r) ==
    CASE u.k \in {"w", "s"} ->
            LET wl == WordLen(u.t)
                m == (r + 1) \div (wl + 1)
                f == r - m * (wl + 1)
            IN (IF m > 0 THEN <<[k |-> "w", n |-> m, t |-> u.t]>> ELSE <<>>)
               \o (IF f > 0 THEN <<Letters(f, u.t)>>
                   ELSE IF f = 0 /\ m > 0 THEN <<Blank>> ELSE <<>>)
      [] u.k = "c" -> <<Letters(r, u.t)>>
      [] u.k = "P" -> <<Newline>>
      [] u.k = "H" -> <<Newline>> \o CutHeaderWords(r - 1)
      [] u.k = "h" -> CutHeaderWords(r)
      [] u.k \in {"m", "d"} -> <<[k |-> "d", n |-> r, t |-> "n"]>>
      [] u.k \in {"E", "e"} -> <<[k |-> "e", n |-> r, t |-> "n"]>>
      [] u.k \in {"R", "r"} -> <<[k |-> "r", n |-> r, t |-> "n"]>>
      [] u.k = "T" -> CutTag(u.n, r)
      [] u.k = "g" -> CutTag(TagNumber(u), r)

\* text[:limit], from unit i on, with r characters left to take.
RECURSIVE TakeFrom(_, _, _)
TakeFrom(text, i, r) ==
    IF i > Len(text) \/ r <= 0 THEN <<>>
    ELSE LET left == r - SpaceBefore(text, i)
             size == UnitChars(text[i])
         IN IF left = 0
            THEN <<Blank>>
            ELSE IF size <= left
            THEN <<text[i]>> \o TakeFrom(text, i + 1, left - size)
            ELSE CutUnit(text[i], left)

Take(text, limit) == TakeFrom(text, 1, limit)

\* The same characters with every run of newlines written as the texts
\* write it: "\n" "\n" is a break, "\n" before a break goes after it, "\n"
\* before a header's newline is a break before the header's words.
RECURSIVE Canon(_)
Canon(text) ==
    IF Len(text) < 2 THEN text
    ELSE IF text[1].k = "l" /\ text[2].k = "l"
    THEN Canon(<<PBreak>> \o SubSeq(text, 3, Len(text)))
    ELSE IF text[1].k = "l" /\ text[2].k = "P"
    THEN <<PBreak>> \o Canon(<<Newline>> \o SubSeq(text, 3, Len(text)))
    ELSE IF text[1].k = "l" /\ text[2].k = "H"
    THEN <<PBreak, HeaderWords>> \o Canon(SubSeq(text, 3, Len(text)))
    ELSE <<Head(text)>> \o Canon(Tail(text))

\* str.strip(): leading and trailing whitespace removed, the newline of a
\* header the text starts with and of a tag it ends with included.
RECURSIVE LStrip(_)
LStrip(text) ==
    IF text = <<>> THEN text
    ELSE IF IsSpace(Head(text)) THEN LStrip(Tail(text))
    ELSE IF Head(text).k = "H" THEN <<HeaderWords>> \o Tail(text)
    ELSE text

RECURSIVE RStrip(_)
RStrip(text) ==
    IF text = <<>> THEN text
    ELSE LET last == text[Len(text)]
             front == SubSeq(text, 1, Len(text) - 1)
         IN IF IsSpace(last) THEN RStrip(front)
            ELSE IF last.k = "T"
            THEN front \o <<TagCut(last.n, 10 + Digits(last.n))>>
            ELSE text

Strip(text) == RStrip(LStrip(text))

\* re.split / str.split on a separator unit: the separators are dropped and
\* empty pieces are kept.
RECURSIVE SplitOn(_, _)
SplitOn(text, kind) ==
    LET hits == {i \in 1..Len(text) : text[i].k = kind}
    IN IF hits = {} THEN <<text>>
       ELSE LET j == CHOOSE j \in hits : \A m \in hits : j <= m
         IN <<SubSeq(text, 1, j-1)>> \o SplitOn(SubSeq(text, j+1, Len(text)), kind)

\* The last unit of the run of whitespace that starts at unit i; i - 1 when
\* unit i is not whitespace.
RECURSIVE RunEnd(_, _)
RunEnd(text, i) ==
    IF i <= Len(text) /\ IsSpace(text[i]) THEN RunEnd(text, i + 1) ELSE i - 1

\* [A-Z\s]{10,}: the least length of a header in capitals, which a run of
\* whitespace is as well.
CapsRun == 10

\* The unit where a match of a section pattern that starts with the newline
\* of unit i ends, 0 when there is none.  '\n\s*FORM\s+\w+' takes the
\* whitespace up to a header and the header; '\n\s*[A-Z\s]{10,}\n' takes a
\* run of whitespace from its first newline to its last when they are
\* eleven characters apart or more.
SectionMatchEnd(text, i) ==
    IF text[i].k = "H" THEN i
    ELSE LET j == RunEnd(text, i)
             newlines == {q \in i..j : text[q].k \in {"P", "l"}}
             last == CHOOSE q \in newlines : \A m \in newlines : m <= q
         IN IF j < Len(text) /\ text[j+1].k \in {"H", "h"} THEN j + 1
            ELSE IF Chars(SubSeq(text, i, last)) >= CapsRun + 2 THEN last
            ELSE 0

\* A match of a section pattern starts at unit i.
IsHeaderAt(text, i) ==
    text[i].k \in {"P", "l", "H"} /\ SectionMatchEnd(text, i) # 0

\* The text after a match that ends at unit j: the space between a header
\* and the word that follows it is not part of the match.
AfterMatch(text, j) ==
    (IF j < Len(text) /\ SpaceBefore(text, j + 1) = 1 THEN <<Blank>> ELSE <<>>)
    \o SubSeq(text, j + 1, Len(text))

\* re.split('|'.join(section_patterns), text): the matches are dropped, the
\* header with the whitespace before it, or the run of whitespace.
RECURSIVE SplitHeaders(_)
SplitHeaders(text) ==
    LET hits == {i \in 1..Len(text) : IsHeaderAt(text, i)}
    IN IF hits = {} THEN <<text>>
       ELSE LET j == CHOOSE j \in hits : \A m \in hits : j <= m
            IN <<SubSeq(text, 1, j-1)>>
               \o SplitHeaders(AfterMatch(text, SectionMatchEnd(text, j)))

\* A full stop that whitespace follows ends a sentence at unit j.
EndsSentence(para, j) ==
    /\ j < Len(para)
    /\ para[j].k \in {"s", "E", "e"}
    /\ \/ IsSpace(para[j+1]) \/ para[j+1].k = "H"
       \/ SpaceBefore(para, j + 1) = 1

\* re.split(r'(?<=[.!?])\s+', para): a cut after every full stop that is
\* followed by whitespace; the whitespace goes, a header's newline too.
RECURSIVE SplitSentences(_)
SplitSentences(para) ==
    LET hits == {i \in 1..Len(para) : EndsSentence(para, i)}
    IN IF hits = {} THEN <<para>>
       ELSE LET j == CHOOSE j \in hits : \A m \in hits : j <= m
            IN <<SubSeq(para, 1, j)>>
               \o SplitSentences(LStrip(SubSeq(para, j + 1, Len(para))))

\* --------------------------------------------- chunk_text_intelligently
\* The running state of the three nested loops.
ChunkState(chunks, cur, tokens) ==
    [chunks |-> chunks, current_chunk |-> cur, current_tokens |-> tokens]

\* if current_chunk.strip(): chunks.append(current_chunk.strip())
Seal(st) ==
    IF Strip(st.current_chunk) # <<>>
    THEN Append(st.chunks, Strip(st.current_chunk))
    ELSE st.chunks

\* current_chunk += sep + piece if current_chunk else piece
Joined(cur, sep, piece) == IF cur # <<>> THEN cur \o sep \o piece ELSE piece

\* current_chunk += " " + sentence if current_chunk else sentence: the space
\* is the one a word has before it, or a unit of its own.
JoinedBySpace(cur, sentence) ==
    IF cur = <<>> THEN sentence
    ELSE IF sentence # <<>> /\ SpaceBefore(cur \o sentence, Len(cur) + 1) = 1
    THEN cur \o sentence
    ELSE cur \o <<Blank>> \o sentence

RECURSIVE SentenceLoop(_, _, _, _, _)
SentenceLoop(sentences, i, st, max, enc) ==
    IF i > Len(sentences) THEN st
    ELSE LET sentence == sentences[i]
             sent_tokens == count_tokens(sentence, enc)
         IN IF AtMost(Plus(st.current_tokens, sent_tokens), Whole(max))
            THEN SentenceLoop(sentences, i + 1,
                     ChunkState(st.chunks,
                                JoinedBySpace(st.current_chunk, sentence),
                                Plus(st.current_tokens, sent_tokens)), max, enc)
            ELSE SentenceLoop(sentences, i + 1,
                     ChunkState(Seal(st), sentence, sent_tokens), max, enc)

RECURSIVE ParagraphLoop(_, _, _, _, _)
ParagraphLoop(paragraphs, i, st, max, enc) ==
    IF i > Len(paragraphs) THEN st
    ELSE LET para == paragraphs[i]
             para_tokens == count_tokens(para, enc)
         IN IF AtMost(Plus(st.current_tokens, para_tokens), Whole(max))
            THEN ParagraphLoop(paragraphs, i + 1,
                     ChunkState(st.chunks,
                                Joined(st.current_chunk, <<PBreak>>, para),
                                Plus(st.current_tokens, para_tokens)), max, enc)
            ELSE IF ~AtMost(para_tokens, Whole(max))
            THEN ParagraphLoop(paragraphs, i + 1,
                     SentenceLoop(SplitSentences(para), 1,
                                  ChunkState(Seal(st), <<>>, Whole(0)), max, enc),
                     max, enc)
            ELSE ParagraphLoop(paragraphs, i + 1,
                     ChunkState(Seal(st), para, para_tokens), max, enc)

RECURSIVE SectionLoop(_, _, _, _, _)
SectionLoop(sections, i, st, max, enc) ==
    IF i > Len(sections) THEN st
    ELSE LET section == Strip(sections[i])
             section_tokens == count_tokens(section, enc)
         IN IF section = <<>>
            THEN SectionLoop(sections, i + 1, st, max, enc)
            ELSE IF AtMost(Plus(st.current_tokens, section_tokens), Whole(max))
            THEN SectionLoop(sections, i + 1,
                     ChunkState(st.chunks,
                                Joined(st.current_chunk, <<PBreak>>, section),
                                Plus(st.current_tokens, section_tokens)), max, enc)
            ELSE IF ~AtMost(section_tokens, Whole(max))
            THEN SectionLoop(sections, i + 1,
                     ParagraphLoop(SplitOn(section, "P"), 1,
                                   ChunkState(Seal(st), <<>>, Whole(0)), max, enc),
                     max, enc)
            ELSE SectionLoop(sections, i + 1,
                     ChunkState(Seal(st), section, section_tokens), max, enc)

\* overlap_tokens is accepted and never read.
chunk_text_intelligently(text, max_chunk_tokens, overlap_tokens, enc) ==
    Seal(SectionLoop(SplitHeaders(text), 1, ChunkState(<<>>, <<>>, Whole(0)),
                     max_chunk_tokens, enc))

\* ------------------------------------------------------ the chunker's runs
RECURSIVE SeqsUpTo(_, _)
SeqsUpTo(S_, n) ==
    IF n = 0 THEN {<<>>}
    ELSE LET shorter == SeqsUpTo(S_, n - 1)
         IN shorter \cup {Append(s, x) : s \in {q \in shorter : Len(q) = n - 1}, x \in S_}

\* n paragraph breaks in a row: six of them are twelve newlines, the
\* shortest run the pattern for a header in capitals matches.
BreakRun(n) == [i \in 1..n |-> PBreak]
LongRuns == {<<W(1)>> \o BreakRun(n) \o <<W(1)>> : n \in 5..6}

\* W(9) after W(1) adds 11.700000000000001 to 1.3 under the fallback.
ChunkUnits == {W(1), W(2), W(9), S(1), S(2), PBreak, Header}
ChunkTexts == SeqsUpTo(ChunkUnits, MaxUnits) \cup LongRuns
\* Budgets: the small ones, and thirteen, the sum of one word and nine.
Budgets == (1..MaxChunkTok) \cup {13}
Encodings == {"bpe", "fallback"}
Overlaps == {0, 200}

ChunkIdle == ck_pc = "idle" /\ ck_in = <<>> /\ ck_out = <<>>

ChunkInit ==
    /\ ck_pc = "call"
    /\ ck_in \in [text : ChunkTexts, max_chunk_tokens : Budgets,
                  overlap_tokens : Overlaps, enc : Encodings]
    /\ ck_out = <<>>

ChunkCall ==
    /\ ck_pc = "call"
    /\ ck_out' = chunk_text_intelligently(ck_in.text, ck_in.max_chunk_tokens,
                                          ck_in.overlap_tokens, ck_in.enc)
    /\ ck_pc' = "done"
    /\ UNCHANGED <<ck_in, ex_vars, sm_vars, pd_vars, qc_vars, pure_vars>>

\* The function called once more with the same text and the same
\* max_chunk_tokens: overlap_tokens is the caller's choice, and count_tokens
\* counts with the encoding when tiktoken.encoding_for_model returns one at
\* that time and with its fallback when it raises.
ChunkAgain ==
    /\ ck_pc = "done"
    /\ \E overlap_tokens \in Overlaps, enc \in Encodings :
        /\ ck_in' = [ck_in EXCEPT !.overlap_tokens = overlap_tokens, !.enc = enc]
        /\ ck_out' = chunk_text_intelligently(ck_in.text, ck_in.max_chunk_tokens,
                                              overlap_tokens, enc)
    /\ ck_pc' = "again"
    /\ UNCHANGED <<ex_vars, sm_vars, pd_vars, qc_vars, pure_vars>>

ChunkNext ==
    \/ ChunkCall
    \/ ChunkAgain

\* ------------------------------------------------- validate_query_result
\* A step's result string: the JSON text of the rows a query returned
\* (json = TRUE; no row is "[]"), or other text (json = FALSE).  A row keeps
\* what the code reads of it: whether a key, or its printed form, holds
\* "count", and its first value.
JsonResult(rows) == [json |-> TRUE, rows |-> rows, has_error |-> FALSE, blank |-> FALSE]
TextResult(has_error, blank) ==
    [json |-> FALSE, rows |-> <<>>, has_error |-> has_error, blank |-> blank]

\* expected_validation is read by two substring tests only.
HintHas(hint, word) ==
    \/ word = "count" /\ hint \in {"count", "count+list"}
    \/ word = "list" /\ hint \in {"list", "count+list"}

validate_query_result(step_description, result, expected_validation) ==
    IF result.json
    THEN IF result.rows = <<>>
         THEN <<FALSE, "Query returned empty result">>
         ELSE IF HintHas(expected_validation, "count")
         THEN IF Len(result.rows) = 1 /\ result.rows[1].key_count
              THEN <<TRUE, "Count query successful">>
              ELSE <<FALSE, "Expected count result">>
         ELSE IF HintHas(expected_validation, "list")
         THEN <<TRUE, "List query returned items">>
         ELSE <<TRUE, "Query executed successfully">>
    ELSE IF result.has_error
    THEN <<FALSE, "Query failed">>
    ELSE IF ~result.blank
    THEN <<TRUE, "Query returned data">>
    ELSE <<FALSE, "Query returned empty result">>

\* ---------------------------------------------------- execute_query_plan
\* The report as first built: success is True until the setup fails.
NewResults ==
    [steps_executed |-> <<>>, final_answer |-> <<>>, success |-> TRUE,
     errors |-> <<>>, warnings |-> <<>>]

\* if not csv_bytes: success = False, the error recorded, return.
NoBytes(r) ==
    [r EXCEPT !.success = FALSE,
              !.errors = Append(@, [kind |-> "download", step |-> 0])]

\* The outer except: success = False, the error recorded, the answer set.
CriticalError(r) ==
    [r EXCEPT !.success = FALSE,
              !.errors = Append(@, [kind |-> "critical", step |-> 0]),
              !.final_answer = <<[kind |-> "error", step |-> 0, value |-> 0]>>]

\* step_result as the loop first builds it.
NewStepResult(i) ==
    [step_number |-> i, result |-> TextResult(FALSE, TRUE), success |-> TRUE,
     validation_passed |-> TRUE, feedback |-> ""]

\* The try branch of a step: the rows are dumped and validated.
StepRan(i, step, rows) ==
    LET res == JsonResult(rows)
        v == validate_query_result(step.desc_count, res, step.hint)
    IN [NewStepResult(i) EXCEPT !.result = res, !.validation_passed = v[1],
                                !.feedback = v[2]]

\* The except branch of a step: the step_result of a query that raised.
StepRaised(i) ==
    [NewStepResult(i) EXCEPT !.success = FALSE, !.result = TextResult(TRUE, FALSE),
                             !.validation_passed = FALSE,
                             !.feedback = "SQL execution failed"]

\* A variant of AfterStepRan that files a failed validation under errors.
AfterStepRanAsError(r, i, sr) ==
    IF sr.validation_passed THEN r
    ELSE [r EXCEPT !.errors = Append(@, [kind |-> "validation", step |-> i])]

\* What the try branch adds to the report: a warning when validation failed.
AfterStepRan(r, i, sr) ==
    IF sr.validation_passed THEN r
    ELSE [r EXCEPT !.warnings = Append(@, [kind |-> "validation", step |-> i])]

\* A variant of AfterStepRaised that treats a step's failure as fatal.
AfterStepRaisedFatal(r, i, e) ==
    [r EXCEPT !.success = FALSE,
              !.errors = Append(@, [kind |-> "step", step |-> i])]

\* A variant of AfterStepRaised that suggests whatever the Column Matcher
\* returned, None included.
AfterStepRaisedSuggestsNone(r, i, e) ==
    LET r1 == [r EXCEPT !.errors = Append(@, [kind |-> "step", step |-> i])]
    IN IF e.column_not_found /\ e.quoted
       THEN [r1 EXCEPT !.warnings = Append(@, [kind |-> "suggestion", step |-> i])]
       ELSE r1

\* What the except branch adds to the report: the error, and a suggestion
\* when the message says a column was not found, quotes a name, and the
\* Column Matcher finds a column for it.
AfterStepRaised(r, i, e) ==
    LET r1 == [r EXCEPT !.errors = Append(@, [kind |-> "step", step |-> i])]
    IN IF e.column_not_found /\ e.quoted /\ e.match
       THEN [r1 EXCEPT !.warnings = Append(@, [kind |-> "suggestion", step |-> i])]
       ELSE r1

\* 'count' in str(result_data[0]).lower(): the row printed, keys and values.
LooksLikeCount(row) == row.key_count \/ row.val_count

\* The lines of "### Key Findings" for one step that ran and validated.
RECURSIVE ItemLines(_, _, _)
ItemLines(i, rows, k) ==
    IF k > Len(rows) \/ k > 10 THEN <<>>
    ELSE <<[kind |-> "item", step |-> i, value |-> rows[k].value]>>
         \o ItemLines(i, rows, k + 1)

FindingLines(sr) ==
    LET rows == sr.result.rows
        i == sr.step_number
    IN <<[kind |-> "finding", step |-> i, value |-> 0]>>
       \o (IF rows = <<>> THEN <<>>
           ELSE IF Len(rows) = 1 /\ LooksLikeCount(rows[1])
           THEN <<[kind |-> "count", step |-> i, value |-> rows[1].value]>>
           ELSE <<[kind |-> "found", step |-> i, value |-> Len(rows)]>>
                \o ItemLines(i, rows, 1)
                \o (IF Len(rows) > 10
                    THEN <<[kind |-> "more", step |-> i, value |-> Len(rows) - 10]>>
                    ELSE <<>>))

RECURSIVE AllFindings(_)
AllFindings(steps) ==
    IF steps = <<>> THEN <<>> ELSE FindingLines(Head(steps)) \o AllFindings(Tail(steps))

\* successful_steps: the steps that ran and passed validation, in order.
SuccessfulSteps(srs) == SelectSeq(srs, LAMBDA sr : sr.success /\ sr.validation_passed)

\* The "### Final Answer" line: the first successful step whose description
\* holds "count", when the objective holds "how many".
FinalAnswerLine(plan, srs) ==
    LET count_steps == SelectSeq(SuccessfulSteps(srs),
                           LAMBDA sr : plan.steps[sr.step_number].desc_count)
    IN IF plan.how_many /\ count_steps # <<>> /\ count_steps[1].result.rows # <<>>
       THEN <<[kind |-> "final", step |-> count_steps[1].step_number,
               value |-> count_steps[1].result.rows[1].value]>>
       ELSE <<>>

IssueLines(r) ==
    (IF r.errors # <<>>
     THEN <<[kind |-> "issues", step |-> 0, value |-> Len(r.errors)]>> ELSE <<>>)
    \o (IF r.warnings # <<>>
        THEN <<[kind |-> "warnings", step |-> 0, value |-> Len(r.warnings)]>> ELSE <<>>)

Synthesize(plan, r, srs) ==
    [r EXCEPT !.steps_executed = srs,
              !.final_answer =
                  <<[kind |-> "title", step |-> 0, value |-> 0]>>
                  \o (IF SuccessfulSteps(srs) # <<>>
                      THEN <<[kind |-> "key_findings", step |-> 0, value |-> 0]>>
                           \o AllFindings(SuccessfulSteps(srs))
                      ELSE <<>>)
                  \o FinalAnswerLine(plan, srs)
                  \o IssueLines(r)]

\* ------------------------------------------- the executor's inputs and runs
Hints == {"count", "list", "none"}
PlanSteps == [desc_count : BOOLEAN, hint : Hints]
Plans == [how_many : BOOLEAN, steps : SeqsUpTo(PlanSteps, MaxSteps)]

CountRow(v) == [key_count |-> TRUE, val_count |-> FALSE, value |-> v]
NameRow(v) == [key_count |-> FALSE, val_count |-> FALSE, value |-> v]
\* What a query may return.
RowSets == {<<>>, <<CountRow(2)>>, <<NameRow(7)>>, <<NameRow(7), NameRow(8)>>}
\* What a query may raise: whether the message says a column was not found,
\* whether it quotes a name, whether the Column Matcher finds a column.
Raises == {[column_not_found |-> FALSE, quoted |-> FALSE, match |-> FALSE],
           [column_not_found |-> FALSE, quoted |-> TRUE, match |-> TRUE],
           [column_not_found |-> TRUE, quoted |-> FALSE, match |-> FALSE],
           [column_not_found |-> TRUE, quoted |-> TRUE, match |-> FALSE],
           [column_not_found |-> TRUE, quoted |-> TRUE, match |-> TRUE]}

\* What the record of exceptions holds for a step whose query returned.
NoFailure == [column_not_found |-> FALSE, quoted |-> FALSE, match |-> FALSE]

ExecIdle ==
    /\ ex_pc = "idle" /\ ex_plan = <<>> /\ ex_env = <<>>
    /\ results = <<>> /\ step_results = <<>> /\ con = "none"

ExecInit ==
    /\ ex_pc = "download"
    /\ ex_plan \in Plans
    /\ ex_env = [setup |-> "pending", raised |-> <<>>, failures |-> <<>>]
    /\ results = NewResults
    /\ step_results = <<>>
    /\ con = "none"

\* download_file_from_supabase returns the bytes, or None (it never raises).
ExecDownload ==
    /\ ex_pc = "download"
    /\ \E got \in BOOLEAN :
         IF got
         THEN /\ ex_pc' = "load"
              /\ UNCHANGED <<results, ex_env>>
         ELSE /\ results' = NoBytes(results)
              /\ ex_env' = [ex_env EXCEPT !.setup = "no_bytes"]
              /\ ex_pc' = "done"
    /\ UNCHANGED <<ex_plan, step_results, con, ck_vars, sm_vars, pd_vars,
                   qc_vars, pure_vars>>

\* pd.read_csv, duckdb.connect, con.register: any of them may raise, before
\* or after the session is opened.
ExecLoad ==
    /\ ex_pc = "load"
    /\ \E outcome \in {"ok", "parse_error", "register_error"} :
         CASE outcome = "ok" ->
                /\ con' = "open"
                /\ ex_env' = [ex_env EXCEPT !.setup = "ok"]
                /\ ex_pc' = "steps"
                /\ UNCHANGED results
           [] outcome = "parse_error" ->
                /\ results' = CriticalError(results)
                /\ ex_env' = [ex_env EXCEPT !.setup = "raised"]
                /\ ex_pc' = "done"
                /\ UNCHANGED con
           [] outcome = "register_error" ->
                /\ con' = "open"
                /\ results' = CriticalError(results)
                /\ ex_env' = [ex_env EXCEPT !.setup = "raised"]
                /\ ex_pc' = "done"
    /\ UNCHANGED <<ex_plan, step_results, ck_vars, sm_vars, pd_vars, qc_vars,
                   pure_vars>>

\* One turn of the loop over the plan's steps, the query returning rows.
ExecStepRuns ==
    /\ ex_pc = "steps"
    /\ Len(step_results) < Len(ex_plan.steps)
    /\ \E rows \in RowSets :
         LET i == Len(step_results) + 1
             sr == StepRan(i, ex_plan.steps[i], rows)
         IN /\ step_results' = Append(step_results, sr)
            /\ results' = AfterStepRan(results, i, sr)
            /\ ex_env' = [ex_env EXCEPT !.raised = Append(@, FALSE),
                                        !.failures = Append(@, NoFailure)]
    /\ UNCHANGED <<ex_pc, ex_plan, con, ck_vars, sm_vars, pd_vars, qc_vars,
                   pure_vars>>

\* A variant of ExecStepRaises without the step's own try: the exception
\* reaches the outer except and ends the run.
ExecStepRaisesAborts ==
    /\ ex_pc = "steps"
    /\ Len(step_results) < Len(ex_plan.steps)
    /\ results' = CriticalError(results)
    /\ ex_env' = [ex_env EXCEPT !.raised = Append(@, TRUE)]
    /\ ex_pc' = "done"
    /\ UNCHANGED <<step_results, ex_plan, con, ck_vars, sm_vars, pd_vars,
                   qc_vars, pure_vars>>

\* One turn of the loop over the plan's steps, the query raising.
ExecStepRaises ==
    /\ ex_pc = "steps"
    /\ Len(step_results) < Len(ex_plan.steps)
    /\ \E e \in Raises :
         LET i == Len(step_results) + 1
         IN /\ step_results' = Append(step_results, StepRaised(i))
            /\ results' = AfterStepRaised(results, i, e)
            /\ ex_env' = [ex_env EXCEPT !.raised = Append(@, TRUE),
                                        !.failures = Append(@, e)]
    /\ UNCHANGED <<ex_pc, ex_plan, con, ck_vars, sm_vars, pd_vars, qc_vars,
                   pure_vars>>

\* After the loop: steps_executed, the final answer, con.close(), return.
ExecFinish ==
    /\ ex_pc = "steps"
    /\ Len(step_results) = Len(ex_plan.steps)
    /\ results' = Synthesize(ex_plan, results, step_results)
    /\ con' = "closed"
    /\ ex_pc' = "done"
    /\ UNCHANGED <<ex_plan, ex_env, step_results, ck_vars, sm_vars, pd_vars,
                   qc_vars, pure_vars>>

Next ==
    \/ ExecDownload
    \/ ExecLoad
    \/ ExecStepRuns
    \/ ExecStepRaises
    \/ ExecFinish


\* ---------------------------------------------------- summarize_text_chunk
Ellipsis == [k |-> "E", n |-> 1, t |-> "n"]

\* text[:2000] + "..." if len(text) > 2000 else text
Truncated(text) ==
    IF Chars(text) > TruncateAt THEN Take(text, TruncateAt) \o <<Ellipsis>> ELSE text

\* What the language-model collaborator does with a call: it raises (the
\* client's construction or the request), answers with no choice, with a
\* choice whose content is None, or with a content string.
LlmRaise == [kind |-> "raise", content |-> <<>>]
LlmNoChoices == [kind |-> "no_choices", content |-> <<>>]
LlmNullContent == [kind |-> "null_content", content |-> <<>>]
LlmContent(text) == [kind |-> "content", content |-> text]

\* The try body: response.choices[0].message.content.strip(), which raises
\* when the call raised, when choices is empty and when content is None.
TryModelCall(llm) ==
    IF llm.kind = "content"
    THEN [raised |-> FALSE, text |-> Strip(llm.content)]
    ELSE [raised |-> TRUE, text |-> <<>>]

\* A variant of summarize_text_chunk without the try: a failed model call
\* raises out of the function.
SummarizeUnguarded(text, focus_query, api_key, llm) ==
    IF ~api_key
    THEN [raised |-> FALSE, text |-> Truncated(text)]
    ELSE TryModelCall(llm)

\* api_key: whether settings.OPENAI_API_KEY is set.
summarize_text_chunk(text, focus_query, api_key, llm) ==
    IF ~api_key
    THEN [raised |-> FALSE, text |-> Truncated(text)]
    ELSE LET r == TryModelCall(llm)
         IN IF r.raised
            THEN [raised |-> FALSE, text |-> Truncated(text)]
            ELSE r

\* ------------------------------------------------ extract_relevant_sections
\* A focus query: None, the empty string, or the word "dosage".
QueryGiven(query) == query \notin {"none", "empty"}

\* The first c characters of a run of whitespace dropped: a break cut in
\* two leaves a newline.
RECURSIVE DropSpace(_, _)
DropSpace(run, c) ==
    IF c <= 0 \/ run = <<>> THEN run
    ELSE IF UnitChars(Head(run)) <= c
    THEN DropSpace(Tail(run), c - UnitChars(Head(run)))
    ELSE <<Newline>> \o Tail(run)

\* r'\n\s*(?=FORM|Chapter|Rule|SCHEDULE|[A-Z\s]{10,})' tried at the newline
\* of unit i: whether it matches and the text after the match.  Before
\* "FORM" the newline and all the whitespace after it go; elsewhere the
\* lookahead wants ten characters of capitals and whitespace, so that much
\* of the run stays (less the capitals of a header cut short that follow
\* it, and the space after them), and there is no match when the run is
\* shorter.
SplitPoint(text, i) ==
    IF text[i].k = "H"
    THEN [found |-> TRUE,
          rest |-> <<HeaderWords>> \o SubSeq(text, i + 1, Len(text))]
    ELSE LET j == RunEnd(text, i)
             run == SubSeq(text, i, j)
             after == SubSeq(text, j + 1, Len(text))
             caps == IF after # <<>> /\ after[1].k = "c" /\ after[1].t = "h"
                     THEN after[1].n
                          + (IF Len(after) > 1 /\ after[2].k = "b" THEN 1 ELSE 0)
                     ELSE 0
             taken == Chars(run) - (CapsRun - caps)
         IN IF after # <<>> /\ after[1].k = "H"
            THEN [found |-> TRUE, rest |-> <<HeaderWords>> \o Tail(after)]
            ELSE IF after # <<>> /\ (after[1].k = "h" \/ after[1] = Letters(4, "h"))
            THEN [found |-> TRUE, rest |-> after]
            ELSE IF taken >= 1
            THEN [found |-> TRUE, rest |-> Canon(DropSpace(run, taken) \o after)]
            ELSE [found |-> FALSE, rest |-> <<>>]

\* The split pattern matches at the newline of unit i.
IsSplitAt(text, i) == text[i].k \in {"P", "l", "H"} /\ SplitPoint(text, i).found

\* re.split(r'\n\s*(?=FORM|...)', text): a cut at every match; the newline
\* and the whitespace matched go, what the lookahead saw opens the section
\* that follows.
RECURSIVE SplitBeforeHeaders(_)
SplitBeforeHeaders(text) ==
    LET hits == {i \in 1..Len(text) : IsSplitAt(text, i)}
    IN IF hits = {} THEN <<text>>
       ELSE LET j == CHOOSE j \in hits : \A m \in hits : j <= m
         IN <<SubSeq(text, 1, j-1)>> \o SplitBeforeHeaders(SplitPoint(text, j).rest)

\* word in section.lower(), for the words the units repeat.
HasWord(section, t) ==
    \E i \in 1..Len(section) :
        /\ section[i].t = t
        /\ \/ section[i].k \in {"w", "s"} /\ section[i].n > 0
           \/ section[i].k = "c" /\ section[i].n = WordLen(t)

\* One point for the query's keyword, five for the query as written (the
\* same word here), one for each regulatory keyword ("safety").
SectionScore(section, query) ==
    (IF query = "dosage" /\ HasWord(section, "q") THEN 1 + PhraseBonus ELSE 0)
    + (IF HasWord(section, "r") THEN 1 ELSE 0)

\* The sections that are long enough and score above zero, in text order.
RECURSIVE ScoredSections(_, _, _)
ScoredSections(sections, i, query) ==
    IF i > Len(sections) THEN <<>>
    ELSE LET section == sections[i]
             score == SectionScore(section, query)
             rest == ScoredSections(sections, i + 1, query)
         IN IF Chars(Strip(section)) < MinSectionChars \/ score <= 0
            THEN rest
            ELSE <<[score |-> score, section |-> section]>> \o rest

\* list.sort(key=score, reverse=True): stable, equal scores keep their order.
RECURSIVE InsertByScore(_, _)
InsertByScore(x, sorted) ==
    IF sorted = <<>> THEN <<x>>
    ELSE IF Head(sorted).score >= x.score
    THEN <<Head(sorted)>> \o InsertByScore(x, Tail(sorted))
    ELSE <<x>> \o sorted

RECURSIVE SortByScore(_, _, _)
SortByScore(scored, i, sorted) ==
    IF i > Len(scored) THEN sorted
    ELSE SortByScore(scored, i + 1, InsertByScore(scored[i], sorted))

\* A variant of SelectLoop that passes over a section that does not fit and
\* goes on to the next (continue in place of break).
RECURSIVE SelectLoopSkipping(_, _, _, _, _)
SelectLoopSkipping(ranked, i, selected, total_tokens, enc) ==
    IF i > Len(ranked) THEN selected
    ELSE LET section_tokens == count_tokens(ranked[i].section, enc)
         IN IF AtMost(Plus(total_tokens, section_tokens), Whole(MaxTokens))
            THEN SelectLoopSkipping(ranked, i + 1,
                                    Append(selected, ranked[i].section),
                                    Plus(total_tokens, section_tokens), enc)
            ELSE SelectLoopSkipping(ranked, i + 1, selected, total_tokens, enc)

\* Sections are taken in rank order while the running total fits; the first
\* one that does not fit ends the loop.
RECURSIVE SelectLoop(_, _, _, _, _)
SelectLoop(ranked, i, selected, total_tokens, enc) ==
    IF i > Len(ranked) THEN selected
    ELSE LET section_tokens == count_tokens(ranked[i].section, enc)
         IN IF AtMost(Plus(total_tokens, section_tokens), Whole(MaxTokens))
            THEN SelectLoop(ranked, i + 1, Append(selected, ranked[i].section),
                            Plus(total_tokens, section_tokens), enc)
            ELSE selected

\* sep.join(pieces)
RECURSIVE JoinWith(_, _)
JoinWith(sep, pieces) ==
    IF pieces = <<>> THEN <<>>
    ELSE IF Len(pieces) = 1 THEN pieces[1]
    ELSE Canon(pieces[1] \o sep \o JoinWith(sep, Tail(pieces)))

RankedSections(text, query) ==
    SortByScore(ScoredSections(SplitBeforeHeaders(text), 1, query), 1, <<>>)

selected_sections(text, query, enc) ==
    SelectLoop(RankedSections(text, query), 1, <<>>, Whole(0), enc)

extract_relevant_sections(text, query, enc) ==
    IF ~QueryGiven(query) THEN text
    ELSE LET selected == selected_sections(text, query, enc)
         IN IF selected # <<>>
            THEN JoinWith(Divider, selected)
            ELSE Take(text, MaxTokens)

\* ---------------------------------------------------- the summarizer's runs
\* 400 words are 1999 characters: what follows them is cut at its first.
SumUnits == {W(1), W(400), W(401), S(400), PBreak, Header}
SumTexts == SeqsUpTo(SumUnits, MaxSumUnits)
Queries == {"none", "empty", "dosage"}
LlmOutcomes ==
    {LlmRaise, LlmNoChoices, LlmNullContent, LlmContent(<<>>),
     LlmContent(<<S(5)>>), LlmContent(<<PBreak, S(5), PBreak>>)}

SumIdle == sm_pc = "idle" /\ sm_in = <<>> /\ sm_out = <<>>

SumInit ==
    /\ sm_pc = "call"
    /\ sm_in \in [text : SumTexts, focus_query : Queries, api_key : BOOLEAN,
                  llm : LlmOutcomes]
    /\ sm_out = <<>>

SumCall ==
    /\ sm_pc = "call"
    /\ sm_out' = summarize_text_chunk(sm_in.text, sm_in.focus_query,
                                      sm_in.api_key, sm_in.llm)
    /\ sm_pc' = "done"
    /\ UNCHANGED <<sm_in, ck_vars, ex_vars, pd_vars, qc_vars, pure_vars>>

SumNext == SumCall

\* ------------------------------------------------------------------ read_pdf
Rule == [k |-> "R", n |-> 1, t |-> "n"]
Tag(i) == [k |-> "T", n |-> i, t |-> "n"]
Q(n) == [k |-> "w", n |-> n, t |-> "q"]

\* What read_pdf returns: raised tells a value from an exception that left
\* the function; kind names the string, text is the document text it
\* carries, note the token counts and section count its first line reports.
NoNote ==
    [filtered |-> Whole(0), original |-> Whole(0), processed |-> Whole(0),
     sections |-> 0]
PdfReturn(kind, text, note) ==
    [raised |-> FALSE, kind |-> kind, text |-> text, note |-> note]

\* An exception that nothing catches.
PdfRaise == [raised |-> TRUE, kind |-> "exception", text |-> <<>>, note |-> NoNote]

\* A variant of OnProcessingError with no handler: the exception leaves.
Unhandled(kind) == PdfRaise

\* The handlers of the inner try and of the outer one turn an exception into
\* a string.
OnProcessingError(kind) == PdfReturn(kind, <<>>, NoNote)

\* The texts of the pages extract_text() returned something for.
RECURSIVE text_content(_)
text_content(pages) ==
    IF pages = <<>> THEN <<>>
    ELSE IF Head(pages) # <<>>
    THEN <<Head(pages)>> \o text_content(Tail(pages))
    ELSE text_content(Tail(pages))

\* A variant of FitsBudget that sends a text of exactly 8000 tokens on.
FitsBudgetStrictly(tokens) == ~AtMost(Whole(MaxTokens), tokens)

\* if total_tokens <= 8000 (and if relevant_tokens <= 8000).
FitsBudget(tokens) == AtMost(tokens, Whole(MaxTokens))

\* A variant of NeedsFilter that runs the filter without a query too.
FilterAlways(query) == TRUE

\* if query: the filter runs.
NeedsFilter(query) == QueryGiven(query)

\* A variant of TextAfterFilter that sends the original text on.
KeepOriginal(full_text, relevant_text) == full_text

\* full_text = relevant_text: what goes on to the chunker after the filter.
TextAfterFilter(full_text, relevant_text) == relevant_text

\* "\n\n" + "="*50 + "\n\n".join(summarized_chunks)
final_result(summarized_chunks) ==
    <<PBreak, Rule>> \o JoinWith(<<PBreak>>, summarized_chunks)

\* One entry of the record of component invocations.
CallOf(component, text, llm) == [component |-> component, text |-> text, llm |-> llm]

\* ---------------------------------------------------------- read_pdf's runs
PageTexts ==
    {<<>>, <<W(1)>>, <<W(3999)>>, <<W(4000)>>, <<W(5999)>>,
     <<Q(4000), Header, Q(3998)>>, <<W(ScenarioTokens)>>}
Documents == SeqsUpTo(PageTexts, MaxPages)
PdfLlmOutcomes == {LlmRaise, LlmContent(<<S(5)>>)}

PdfIdle ==
    /\ pd_pc = "idle" /\ pd_in = <<>> /\ pd_env = <<>> /\ pd_text = <<>>
    /\ pd_total = Whole(0) /\ pd_chunks = <<>> /\ pd_sums = <<>> /\ pd_calls = <<>>
    /\ pd_out = <<>>

PdfInit ==
    /\ pd_pc = "start"
    /\ pd_in \in [pages : Documents, query : Queries, enc : Encodings,
                  bucket : BOOLEAN, api_key : BOOLEAN]
    /\ pd_env = [download |-> "pending", open |-> "pending"]
    /\ pd_text = <<>> /\ pd_total = Whole(0) /\ pd_chunks = <<>> /\ pd_sums = <<>>
    /\ pd_calls = <<>> /\ pd_out = <<>>

\* if not settings.SUPABASE_BUCKET_NAME: return the error.
PdfStart ==
    /\ pd_pc = "start"
    /\ IF pd_in.bucket
       THEN pd_pc' = "download" /\ pd_out' = pd_out
       ELSE pd_pc' = "done" /\ pd_out' = PdfReturn("bucket_error", <<>>, NoNote)
    /\ UNCHANGED <<pd_in, pd_env, pd_text, pd_total, pd_chunks, pd_sums, pd_calls>>
    /\ UNCHANGED <<ck_vars, ex_vars, sm_vars, qc_vars, pure_vars>>

\* The download: bytes, nothing (the repository's client answers None to every
\* failure), or an exception from a collaborator that raises.
PdfDownload ==
    /\ pd_pc = "download"
    /\ \E outcome \in {"bytes", "none", "raise"} :
        /\ pd_env' = [pd_env EXCEPT !.download = outcome]
        /\ CASE outcome = "bytes" -> pd_pc' = "open" /\ pd_out' = pd_out
             [] outcome = "none" ->
                   /\ pd_pc' = "done"
                   /\ pd_out' = PdfReturn("download_error", <<>>, NoNote)
             [] outcome = "raise" ->
                   /\ pd_pc' = "done"
                   /\ pd_out' = OnProcessingError("read_pdf_error")
    /\ UNCHANGED <<pd_in, pd_text, pd_total, pd_chunks, pd_sums, pd_calls>>
    /\ UNCHANGED <<ck_vars, ex_vars, sm_vars, qc_vars, pure_vars>>

\* pdfplumber opens the file and the pages are read; then the size test.
PdfExtract ==
    /\ pd_pc = "open"
    /\ \E outcome \in {"ok", "encrypted", "error"} :
        /\ pd_env' = [pd_env EXCEPT !.open = outcome]
        /\ LET full_text == JoinWith(Divider, text_content(pd_in.pages))
               total_tokens == count_tokens(full_text, pd_in.enc)
           IN CASE outcome = "encrypted" ->
                     /\ pd_pc' = "done"
                     /\ pd_out' = OnProcessingError("encrypted_error")
                     /\ UNCHANGED <<pd_text, pd_total>>
                [] outcome = "error" ->
                     /\ pd_pc' = "done"
                     /\ pd_out' = OnProcessingError("processing_error")
                     /\ UNCHANGED <<pd_text, pd_total>>
                [] outcome = "ok" /\ pd_in.pages = <<>> ->
                     /\ pd_pc' = "done"
                     /\ pd_out' = PdfReturn("no_pages_error", <<>>, NoNote)
                     /\ UNCHANGED <<pd_text, pd_total>>
                [] outcome = "ok" /\ pd_in.pages # <<>>
                                  /\ text_content(pd_in.pages) = <<>> ->
                     /\ pd_pc' = "done"
                     /\ pd_out' = PdfReturn("no_text_warning", <<>>, NoNote)
                     /\ UNCHANGED <<pd_text, pd_total>>
                [] OTHER ->
                     /\ pd_text' = full_text
                     /\ pd_total' = total_tokens
                     /\ IF FitsBudget(total_tokens)
                        THEN /\ pd_pc' = "done"
                             /\ pd_out' = PdfReturn("full_text", full_text, NoNote)
                        ELSE /\ pd_pc' = IF NeedsFilter(pd_in.query)
                                         THEN "filter" ELSE "chunk"
                             /\ pd_out' = pd_out
    /\ UNCHANGED <<pd_in, pd_chunks, pd_sums, pd_calls>>
    /\ UNCHANGED <<ck_vars, ex_vars, sm_vars, qc_vars, pure_vars>>

\* Step 1: the filter, and the second size test.
PdfFilter ==
    /\ pd_pc = "filter"
    /\ LET relevant_text == extract_relevant_sections(pd_text, pd_in.query, pd_in.enc)
           relevant_tokens == count_tokens(relevant_text, pd_in.enc)
       IN /\ pd_calls' = Append(pd_calls, CallOf("filter", pd_text, "none"))
          /\ IF FitsBudget(relevant_tokens)
             THEN /\ pd_pc' = "done"
                  /\ pd_out' = PdfReturn("filtered", relevant_text,
                                   [NoNote EXCEPT !.filtered = relevant_tokens,
                                                  !.original = pd_total])
                  /\ pd_text' = pd_text
             ELSE /\ pd_pc' = "chunk"
                  /\ pd_out' = pd_out
                  /\ pd_text' = TextAfterFilter(pd_text, relevant_text)
    /\ UNCHANGED <<pd_in, pd_env, pd_total, pd_chunks, pd_sums>>
    /\ UNCHANGED <<ck_vars, ex_vars, sm_vars, qc_vars, pure_vars>>

\* Step 2: chunk_text_intelligently(full_text, max_chunk_tokens=3000).
PdfChunk ==
    /\ pd_pc = "chunk"
    /\ pd_chunks' = chunk_text_intelligently(pd_text, PdfChunkTokens, 200, pd_in.enc)
    /\ pd_calls' = Append(pd_calls, CallOf("chunker", pd_text, "none"))
    /\ pd_pc' = "summarize"
    /\ UNCHANGED <<pd_in, pd_env, pd_text, pd_total, pd_sums, pd_out>>
    /\ UNCHANGED <<ck_vars, ex_vars, sm_vars, qc_vars, pure_vars>>

\* Step 3, one turn of the loop: the next chunk is summarized and tagged. An
\* exception out of the summarizer would land in the inner handler.
PdfSummarize ==
    /\ pd_pc = "summarize"
    /\ Len(pd_sums) < Len(pd_chunks)
    /\ \E llm \in PdfLlmOutcomes :
        LET i == Len(pd_sums) + 1
            summary == summarize_text_chunk(pd_chunks[i], pd_in.query,
                                            pd_in.api_key, llm)
        IN /\ pd_calls' = Append(pd_calls,
                              CallOf("summarizer", pd_chunks[i],
                                     IF pd_in.api_key THEN llm.kind ELSE "none"))
           /\ IF summary.raised
              THEN /\ pd_pc' = "done"
                   /\ pd_out' = OnProcessingError("processing_error")
                   /\ pd_sums' = pd_sums
              ELSE /\ pd_pc' = "summarize"
                   /\ pd_out' = pd_out
                   /\ pd_sums' = Append(pd_sums, <<Tag(i)>> \o summary.text)
    /\ UNCHANGED <<pd_in, pd_env, pd_text, pd_total, pd_chunks>>
    /\ UNCHANGED <<ck_vars, ex_vars, sm_vars, qc_vars, pure_vars>>

\* The summaries are combined and the note is put before them.
PdfFinish ==
    /\ pd_pc = "summarize"
    /\ Len(pd_sums) = Len(pd_chunks)
    /\ LET result == final_result(pd_sums)
           final_tokens == count_tokens(result, pd_in.enc)
       IN pd_out' = PdfReturn("processed", result,
                        [NoNote EXCEPT !.original = pd_total,
                                       !.processed = final_tokens,
                                       !.sections = Len(pd_chunks)])
    /\ pd_pc' = "done"
    /\ UNCHANGED <<pd_in, pd_env, pd_text, pd_total, pd_chunks, pd_sums, pd_calls>>
    /\ UNCHANGED <<ck_vars, ex_vars, sm_vars, qc_vars, pure_vars>>

PdfNext ==
    \/ PdfStart
    \/ PdfDownload
    \/ PdfExtract
    \/ PdfFilter
    \/ PdfChunk
    \/ PdfSummarize
    \/ PdfFinish

\* ----------------------------------------------------------------- query_csv
\* What query_csv returns.  kind names the string; a report carries the
\* sections it was built from: its heading and schema section always, the
\* execution-step section when steps were executed, the executor's answer,
\* and the technical details when there are errors or warnings.
NoSections ==
    [schema_section |-> FALSE, steps_section |-> FALSE, final_answer |-> <<>>,
     technical_details |-> FALSE]
CsvReturn(kind) == [kind |-> kind, sections |-> NoSections, error_in |-> "nowhere"]

\* The objective path's output_parts, joined.
Report(r) ==
    [kind |-> "report",
     sections |-> [schema_section |-> TRUE,
                   steps_section |-> r.steps_executed # <<>>,
                   final_answer |-> r.final_answer,
                   technical_details |-> r.errors # <<>> \/ r.warnings # <<>>],
     error_in |-> "nowhere"]

\* error_in names the one string written into the text that holds "Error:",
\* when one does.  The strings of the request, of the data and of the
\* exceptions that a return writes into its text, by the place they come
\* from: the file name, the direct query, the objective (the steps'
\* descriptions are made of it and of column names), the column names of the
\* file, the cells of the rows that are listed (a listing prints their keys
\* with them), and the message of an exception.  The bucket and arguments
\* errors, the pandas import error and "[]" are fixed strings.
\* analyze_csv_schema's message for a file it could not fetch is its own
\* words around the file name; the suggestion quotes the engine's message,
\* the column it names and the columns of the file.  A report carries the
\* message of every step that raised and of the executor's critical error,
\* and the first cell of the rows its findings list.
Echoes(kind, r, env) ==
    CASE kind \in {"bucket_error", "arguments_error", "import_error",
                   "empty_json"} -> {}
      [] kind \in {"download_error", "empty_data_error"} -> {"file_id"}
      [] kind = "schema_error" ->
            {"file_id"} \cup (IF env.analysis = "unreadable" THEN {"message"} ELSE {})
      [] kind \in {"parser_error", "read_error", "outer_error"} ->
            {"file_id", "message"}
      [] kind = "results" -> {"file_id", "sql_query", "cells", "columns"}
      [] kind = "duckdb_suggestion" -> {"columns", "message"}
      [] kind = "duckdb_error" -> {"file_id", "sql_query", "columns", "message"}
      [] kind = "execution_error" -> {"file_id", "sql_query", "message"}
      [] kind = "report" ->
            {"file_id", "objective", "columns"}
            \cup (IF \E i \in 1..Len(r.final_answer) :
                        r.final_answer[i].kind \in {"count", "item", "final"}
                  THEN {"cells"} ELSE {})
            \cup (IF \E i \in 1..Len(r.errors) :
                        r.errors[i].kind \in {"step", "critical"}
                  THEN {"message"} ELSE {})

\* "Error:" in the returned text.  Some strings open with it; "[]" does not
\* hold it; a result listing and the strings built around the request and
\* the message of an exception ("Error analyzing ...", "DuckDB Error
\* executing ...", "Error in query_csv ...") hold it when a string written
\* into them does (the engine's messages read "Binder Error: ...", pandas'
\* do not).  A report holds the line "   Error: <feedback>" for every
\* executed step whose success is False, and the executor's "Error: Could
\* not execute analysis" when that is its answer; otherwise it holds it when
\* a string written into it does.
HasErrorPrefix(out, r, env) ==
    CASE out.kind \in {"bucket_error", "arguments_error", "download_error",
                       "import_error", "empty_data_error", "parser_error",
                       "duckdb_suggestion"} -> TRUE
      [] out.kind = "empty_json" -> FALSE
      [] out.kind \in {"results", "schema_error", "read_error", "duckdb_error",
                       "execution_error", "outer_error"} ->
            out.error_in \in Echoes(out.kind, r, env)
      [] out.kind = "report" ->
            \/ \E i \in 1..Len(out.sections.final_answer) :
                   out.sections.final_answer[i].kind = "error"
            \/ \E i \in 1..Len(r.steps_executed) :
                   ~r.steps_executed[i].success
            \/ out.error_in \in Echoes(out.kind, r, env)

CsvIdle ==
    /\ qc_pc = "idle" /\ qc_in = <<>> /\ qc_env = <<>> /\ qc_con = "none"
    /\ qc_out = <<>>

CsvInit ==
    /\ qc_pc = "start"
    /\ qc_in \in [bucket : BOOLEAN, sql_query : BOOLEAN, objective : BOOLEAN]
    /\ qc_env = [analysis |-> "pending", fetches |-> <<>>]
    /\ qc_con = "none"
    /\ qc_out = <<>>

\* A variant of CsvStart that plans whenever an objective is given, a direct
\* query or not.
CsvStartObjectiveFirst ==
    /\ qc_pc = "start"
    /\ IF ~qc_in.bucket
       THEN qc_pc' = "done" /\ qc_out' = CsvReturn("bucket_error")
       ELSE IF qc_in.objective
       THEN qc_pc' = "analyze" /\ qc_out' = qc_out
       ELSE IF ~qc_in.sql_query
       THEN qc_pc' = "done" /\ qc_out' = CsvReturn("arguments_error")
       ELSE qc_pc' = "sql_analyze" /\ qc_out' = qc_out
    /\ UNCHANGED <<qc_in, qc_env, qc_con>>
    /\ UNCHANGED <<ck_vars, ex_vars, sm_vars, pd_vars, pure_vars>>

\* The bucket test and the choice of path.
CsvStart ==
    /\ qc_pc = "start"
    /\ IF ~qc_in.bucket
       THEN qc_pc' = "done" /\ qc_out' = CsvReturn("bucket_error")
       ELSE IF qc_in.objective /\ ~qc_in.sql_query
       THEN qc_pc' = "analyze" /\ qc_out' = qc_out
       ELSE IF ~qc_in.sql_query
       THEN qc_pc' = "done" /\ qc_out' = CsvReturn("arguments_error")
       ELSE qc_pc' = "sql_analyze" /\ qc_out' = qc_out
    /\ UNCHANGED <<qc_in, qc_env, qc_con>>
    /\ UNCHANGED <<ck_vars, ex_vars, sm_vars, pd_vars, pure_vars>>

\* Step 1 of the objective path: analyze_csv_schema fetches the file and
\* reads it; it raises when there are no bytes or the dataset cannot be read.
CsvAnalyze ==
    /\ qc_pc = "analyze"
    /\ \E outcome \in {"ok", "no_bytes", "unreadable"} :
        /\ qc_env' = [qc_env EXCEPT !.analysis = outcome,
                                    !.fetches = Append(@, outcome # "no_bytes")]
        /\ IF outcome = "ok"
           THEN qc_pc' = "plan" /\ qc_out' = qc_out
           ELSE /\ qc_pc' = "done"
                /\ \E place \in {"nowhere"} \cup Echoes("schema_error", results, qc_env') :
                       qc_out' = [CsvReturn("schema_error") EXCEPT !.error_in = place]
    /\ UNCHANGED <<qc_in, qc_con>>
    /\ UNCHANGED <<ck_vars, ex_vars, sm_vars, pd_vars, pure_vars>>

\* Steps 2 and 3: the plan is built and execute_query_plan is entered.
CsvExecute ==
    /\ qc_pc = "plan"
    /\ ex_pc' = "download"
    /\ ex_plan' \in Plans
    /\ ex_env' = [setup |-> "pending", raised |-> <<>>, failures |-> <<>>]
    /\ results' = NewResults
    /\ step_results' = <<>>
    /\ con' = "none"
    /\ qc_pc' = "executing"
    /\ UNCHANGED <<qc_in, qc_env, qc_con, qc_out>>
    /\ UNCHANGED <<ck_vars, sm_vars, pd_vars, pure_vars>>

\* execute_query_plan has returned: the report is put together whatever the
\* executor's success flag says.
CsvFormat ==
    /\ qc_pc = "executing"
    /\ ex_pc = "done"
    /\ \E place \in {"nowhere"} \cup Echoes("report", results, qc_env) :
           qc_out' = [Report(results) EXCEPT !.error_in = place]
    /\ qc_env' = [qc_env EXCEPT !.fetches = Append(@, ex_env.setup # "no_bytes")]
    /\ qc_pc' = "done"
    /\ UNCHANGED <<qc_in, qc_con>>
    /\ UNCHANGED <<ck_vars, ex_vars, sm_vars, pd_vars, pure_vars>>

\* The direct-query path: the schema is analysed for the column names only;
\* a failure is logged and the path goes on.
CsvSqlAnalyze ==
    /\ qc_pc = "sql_analyze"
    /\ \E outcome \in {"ok", "no_bytes", "unreadable"} :
        qc_env' = [qc_env EXCEPT !.analysis = outcome,
                                 !.fetches = Append(@, outcome # "no_bytes")]
    /\ qc_pc' = "sql_download"
    /\ UNCHANGED <<qc_in, qc_con, qc_out>>
    /\ UNCHANGED <<ck_vars, ex_vars, sm_vars, pd_vars, pure_vars>>

\* The direct-query path's own fetch, and duckdb.connect, which stands
\* outside the two inner tries: when it raises, no session exists and the
\* outer handler returns "Error in query_csv for file ...: <message>".
CsvSqlDownload ==
    /\ qc_pc = "sql_download"
    /\ \E outcome \in {"no_bytes", "connect_raises", "connected"} :
        /\ qc_env' = [qc_env EXCEPT !.fetches = Append(@, outcome # "no_bytes")]
        /\ CASE outcome = "connected" ->
                    qc_pc' = "sql_load" /\ qc_con' = "open" /\ qc_out' = qc_out
             [] outcome = "connect_raises" ->
                    /\ qc_pc' = "done" /\ qc_con' = qc_con
                    /\ \E place \in {"nowhere"} \cup Echoes("outer_error", results, qc_env) :
                           qc_out' = [CsvReturn("outer_error") EXCEPT !.error_in = place]
             [] outcome = "no_bytes" ->
                    /\ qc_pc' = "done" /\ qc_con' = qc_con
                    /\ \E place \in {"nowhere"} \cup Echoes("download_error", results, qc_env) :
                           qc_out' = [CsvReturn("download_error") EXCEPT !.error_in = place]
    /\ UNCHANGED qc_in
    /\ UNCHANGED <<ck_vars, ex_vars, sm_vars, pd_vars, pure_vars>>

\* pd.read_csv and con.register in the first try, which has no finally: each
\* return here leaves the session as it is.
CsvSqlLoad ==
    /\ qc_pc = "sql_load"
    /\ \E outcome \in {"ok", "empty_frame", "import_error", "empty_data_error",
                       "parser_error", "read_error"} :
        IF outcome = "ok"
        THEN qc_pc' = "sql_run" /\ qc_out' = qc_out
        ELSE LET kind == IF outcome = "empty_frame" THEN "empty_json" ELSE outcome
             IN /\ qc_pc' = "done"
                /\ \E place \in {"nowhere"} \cup Echoes(kind, results, qc_env) :
                       qc_out' = [CsvReturn(kind) EXCEPT !.error_in = place]
    /\ UNCHANGED <<qc_in, qc_env, qc_con>>
    /\ UNCHANGED <<ck_vars, ex_vars, sm_vars, pd_vars, pure_vars>>

\* con.execute(sql_query) in the second try, whose finally closes the session.
CsvSqlRun ==
    /\ qc_pc = "sql_run"
    /\ \E outcome \in {"rows", "no_rows", "duckdb_error", "other_error"} :
       \E e \in Raises :
        LET kind == CASE outcome = "rows" -> "results"
                      [] outcome = "no_rows" -> "empty_json"
                      [] outcome = "duckdb_error" ->
                           IF e.column_not_found /\ e.quoted /\ e.match
                           THEN "duckdb_suggestion"
                           ELSE "duckdb_error"
                      [] outcome = "other_error" -> "execution_error"
        IN \E place \in {"nowhere"} \cup Echoes(kind, results, qc_env) :
               qc_out' = [CsvReturn(kind) EXCEPT !.error_in = place]
    /\ qc_con' = "closed"
    /\ qc_pc' = "done"
    /\ UNCHANGED <<qc_in, qc_env>>
    /\ UNCHANGED <<ck_vars, ex_vars, sm_vars, pd_vars, pure_vars>>

CsvNext ==
    \/ CsvStart
    \/ CsvAnalyze
    \/ CsvExecute
    \/ ExecDownload
    \/ ExecLoad
    \/ ExecStepRuns
    \/ ExecStepRaises
    \/ ExecFinish
    \/ CsvFormat
    \/ CsvSqlAnalyze
    \/ CsvSqlDownload
    \/ CsvSqlLoad
    \/ CsvSqlRun

\* ------------------------------------------------------- character strings
\* A column name, an objective, a step's description and a cell of a table
\* are Python strings kept character by character: a sequence of
\* one-character strings.  None is a value no string equals.
None == <<"None">>

ascii_uppercase ==
    <<"A", "B", "C", "D", "E", "F", "G", "H", "I", "J", "K", "L", "M", "N",
    "O", "P", "Q", "R", "S", "T", "U", "V", "W", "X", "Y", "Z">>
ascii_lowercase ==
    <<"a", "b", "c", "d", "e", "f", "g", "h", "i", "j", "k", "l", "m", "n",
    "o", "p", "q", "r", "s", "t", "u", "v", "w", "x", "y", "z">>
digits ==
    <<"0", "1", "2", "3", "4", "5", "6", "7", "8", "9">>

\* The characters of the model in code-point order, for str's "<".
CodePoints ==
    <<" ", "'", "(", ")", "-", ".", "0", "1", "2", "3", "4", "5", "6", "7",
    "8", "9", "?", "A", "B", "C", "D", "E", "F", "G", "H", "I", "J", "K",
    "L", "M", "N", "O", "P", "Q", "R", "S", "T", "U", "V", "W", "X", "Y",
    "Z", "_", "a", "b", "c", "d", "e", "f", "g", "h", "i", "j", "k", "l",
    "m", "n", "o", "p", "q", "r", "s", "t", "u", "v", "w", "x", "y", "z">>

InSeq(c, s) == \E i \in 1..Len(s) : s[i] = c
IndexIn(c, s) == CHOOSE i \in 1..Len(s) : s[i] = c
isupper(c) == InSeq(c, ascii_uppercase)
islower(c) == InSeq(c, ascii_lowercase)
isdigit(c) == InSeq(c, digits)
ord(c) == IndexIn(c, CodePoints)

\* str.lower and str.upper.
lower(s) ==
    [i \in 1..Len(s) |->
        IF isupper(s[i]) THEN ascii_lowercase[IndexIn(s[i], ascii_uppercase)]
        ELSE s[i]]
upper(s) ==
    [i \in 1..Len(s) |->
        IF islower(s[i]) THEN ascii_uppercase[IndexIn(s[i], ascii_lowercase)]
        ELSE s[i]]

\* str.strip: the blanks at both ends go.
strip(s) ==
    LET inked == {i \in 1..Len(s) : s[i] # " "}
        first == CHOOSE i \in inked : \A j \in inked : i <= j
        last == CHOOSE i \in inked : \A j \in inked : j <= i
    IN  IF inked = {} THEN <<>> ELSE SubSeq(s, first, last)

\* Python's "k in s" on two strings.
InStr(k, s) ==
    \E i \in 1..(Len(s) - Len(k) + 1) : SubSeq(s, i, i + Len(k) - 1) = k
\* any(keyword in s for keyword in keywords)
AnyIn(keywords, s) == \E j \in 1..Len(keywords) : InStr(keywords[j], s)

\* str's "<": the first differing character decides, a proper prefix is less.
StrLess(a, b) ==
    \/ \E i \in 1..Len(a) :
          /\ i <= Len(b)
          /\ SubSeq(a, 1, i - 1) = SubSeq(b, 1, i - 1)
          /\ ord(a[i]) < ord(b[i])
    \/ Len(a) < Len(b) /\ a = SubSeq(b, 1, Len(a))

\* --------------------------------------------- difflib.get_close_matches
\* SequenceMatcher.find_longest_match with no junk: the longest block
\* a[i..i+size-1] = b[j..j+size-1], the earliest in a, then the earliest in b.
RECURSIVE RunLength(_, _, _, _)
\* How far a from i and b from j go on alike.
RunLength(a, b, i, j) ==
    IF i > Len(a) \/ j > Len(b) THEN 0
    ELSE IF a[i] # b[j] THEN 0
    ELSE 1 + RunLength(a, b, i + 1, j + 1)

find_longest_match(a, b) ==
    LET pairs == {p \in (1..Len(a)) \X (1..Len(b)) : a[p[1]] = b[p[2]]}
        runs == {<<p[1], p[2], RunLength(a, b, p[1], p[2])>> : p \in pairs}
        Better(x, y) ==
            \/ x[3] > y[3]
            \/ x[3] = y[3] /\ x[1] < y[1]
            \/ x[3] = y[3] /\ x[1] = y[1] /\ x[2] < y[2]
        best == CHOOSE x \in runs : \A y \in runs : y = x \/ Better(x, y)
    IN  IF pairs = {} THEN [i |-> 1, j |-> 1, size |-> 0]
        ELSE [i |-> best[1], j |-> best[2], size |-> best[3]]

\* get_matching_blocks: the longest block, then the same to its left and to
\* its right; the number of characters matched in all.
RECURSIVE matches(_, _)
matches(a, b) ==
    LET m == find_longest_match(a, b)
    IN  IF m.size = 0 THEN 0
        ELSE m.size
             + matches(SubSeq(a, 1, m.i - 1), SubSeq(b, 1, m.j - 1))
             + matches(SubSeq(a, m.i + m.size, Len(a)),
                       SubSeq(b, m.j + m.size, Len(b)))

\* SequenceMatcher.ratio is 2.0 * matches / (len(a) + len(b)), and 1.0 for two
\* empty strings.  A score keeps the two numbers; the cutoff is in tenths.
Score(a, word) == [matched |-> matches(a, word), total |-> Len(a) + Len(word)]
RatioAtLeast(score, cutoff) ==
    \/ score.total = 0
    \/ 2 * score.matched * Tenths >= cutoff * score.total
\* One ratio less than another, two fractions compared; the ratio of two
\* empty strings is 1.0, which no ratio exceeds.
RatioLess(x, y) ==
    IF x.total = 0 THEN FALSE
    ELSE IF y.total = 0 THEN 2 * x.matched < x.total
    ELSE x.matched * y.total < y.matched * x.total

RECURSIVE BestMatch(_, _, _)
\* The greatest (ratio, possibility) among the possibilities that reach the
\* cutoff, the greater string among equal ratios: [found, score, x].
BestMatch(word, possibilities, cutoff) ==
    IF possibilities = <<>> THEN [found |-> FALSE, score |-> <<>>, x |-> <<>>]
    ELSE LET rest == BestMatch(word, Tail(possibilities), cutoff)
             x == Head(possibilities)
             mine == [found |-> TRUE, score |-> Score(x, word), x |-> x]
         IN  IF ~RatioAtLeast(mine.score, cutoff) THEN rest
             ELSE IF ~rest.found THEN mine
             ELSE IF RatioLess(mine.score, rest.score) THEN rest
             ELSE IF RatioLess(rest.score, mine.score) THEN mine
             ELSE IF StrLess(mine.x, rest.x) THEN rest
             ELSE mine

\* get_close_matches(word, possibilities, n=1, cutoff): a list of the best
\* match, or the empty list.
get_close_matches(word, possibilities, cutoff) ==
    LET best == BestMatch(word, possibilities, cutoff)
    IN  IF best.found THEN <<best.x>> ELSE <<>>

\* ------------------------------------------------ find_best_column_match
\* The default threshold 0.6, in tenths.
Threshold == 6

\* common_patterns, in the order the dictionary is written.
Categories == <<"company", "product", "country", "approval", "date", "status">>
pattern_company ==
    <<<<"c", "o", "m", "p", "a", "n", "y">>,
    <<"e", "m", "p", "r", "e", "s", "a">>,
    <<"c", "o", "r", "p", "o", "r", "a", "t", "i", "o", "n">>,
    <<"c", "o", "r", "p">>,
    <<"m", "a", "n", "u", "f", "a", "c", "t", "u", "r", "e", "r">>,
    <<"a", "p", "p", "l", "i", "c", "a", "n", "t">>>>
pattern_product ==
    <<<<"p", "r", "o", "d", "u", "c", "t">>,
    <<"m", "e", "d", "i", "c", "a", "m", "e", "n", "t", "o">>,
    <<"d", "r", "u", "g">>, <<"m", "e", "d", "i", "c", "i", "n", "e">>,
    <<"b", "r", "a", "n", "d">>,
    <<"t", "r", "a", "d", "e", "m", "a", "r", "k">>>>
pattern_country ==
    <<<<"c", "o", "u", "n", "t", "r", "y">>, <<"p", "a", "i", "s">>,
    <<"n", "a", "t", "i", "o", "n">>,
    <<"l", "o", "c", "a", "t", "i", "o", "n">>>>
pattern_approval ==
    <<<<"a", "p", "p", "r", "o", "v", "a", "l">>,
    <<"a", "p", "p", "r", "o", "v", "e", "d">>,
    <<"a", "u", "t", "h", "o", "r", "i", "z", "a", "t", "i", "o", "n">>,
    <<"p", "e", "r", "m", "i", "t">>, <<"l", "i", "c", "e", "n", "s", "e">>>>
pattern_date ==
    <<<<"d", "a", "t", "e">>, <<"f", "e", "c", "h", "a">>,
    <<"t", "i", "m", "e">>, <<"y", "e", "a", "r">>,
    <<"m", "o", "n", "t", "h">>>>
pattern_status ==
    <<<<"s", "t", "a", "t", "u", "s">>, <<"e", "s", "t", "a", "d", "o">>,
    <<"s", "t", "a", "t", "e">>,
    <<"c", "o", "n", "d", "i", "t", "i", "o", "n">>>>
common_patterns ==
    [c \in {Categories[i] : i \in 1..Len(Categories)} |->
        CASE c = "company" -> pattern_company
          [] c = "product" -> pattern_product
          [] c = "country" -> pattern_country
          [] c = "approval" -> pattern_approval
          [] c = "date" -> pattern_date
          [] c = "status" -> pattern_status]

\* The first category one of whose keywords the target holds, or "none".
target_category(target_lower) ==
    LET hit == {i \in 1..Len(Categories) :
                    AnyIn(common_patterns[Categories[i]], target_lower)}
    IN  IF hit = {} THEN "none"
        ELSE Categories[CHOOSE i \in hit : \A j \in hit : i <= j]

\* The first column a predicate holds of, or None.
FirstColumn(available_columns, Holds(_)) ==
    LET hit == {i \in 1..Len(available_columns) : Holds(available_columns[i])}
    IN  IF hit = {} THEN None
        ELSE available_columns[CHOOSE i \in hit : \A j \in hit : i <= j]

\* The exact match: the first column equal to the target once both are in
\* lower case and stripped.
ExactMatch(target, available_columns) ==
    LET target_lower == strip(lower(target))
        Same(col) == strip(lower(col)) = target_lower
    IN  FirstColumn(available_columns, Same)

\* The fuzzy match: the closest lower-cased column, given back as written.
FuzzyMatch(target, available_columns, threshold) ==
    LET target_lower == strip(lower(target))
        close == get_close_matches(target_lower,
                     [i \in 1..Len(available_columns) |->
                         lower(available_columns[i])], threshold)
        Same(col) == lower(col) = close[1]
    IN  IF close = <<>> THEN None ELSE FirstColumn(available_columns, Same)

\* The partial match: the first column that holds a keyword of the target's
\* category.
PartialMatch(target, available_columns) ==
    LET category == target_category(strip(lower(target)))
        Same(col) == AnyIn(common_patterns[category], lower(col))
    IN  IF category = "none" THEN None
        ELSE FirstColumn(available_columns, Same)

find_best_column_match(target, available_columns, threshold) ==
    LET exact == ExactMatch(target, available_columns)
        fuzzy == FuzzyMatch(target, available_columns, threshold)
    IN  IF exact # None THEN exact
        ELSE IF fuzzy # None THEN fuzzy
        ELSE PartialMatch(target, available_columns)

\* ---------------------------------------------------- analyze_csv_schema
\* A table as pandas reads it: the column names, all different, and the rows,
\* each a cell per column.  A cell is empty (k = "null"), a whole number
\* (k = "int") or any other text (k = "text"), v being what is written.
NullCell == [k |-> "null", v |-> <<>>]
IntCell(v) == [k |-> "int", v |-> v]
TextCell(v) == [k |-> "text", v |-> v]

\* The cells of column i, top to bottom.
ColumnCells(df, i) == [r \in 1..Len(df.rows) |-> df.rows[r][i]]

\* The dtype pandas infers, as the analyzer names it: whole numbers with no
\* gap are int64, whole numbers with gaps and a column of gaps are float64,
\* anything else, a column of no rows included, is object.
data_type(cells) ==
    LET kinds == {cells[r].k : r \in 1..Len(cells)}
    IN  IF cells = <<>> \/ "text" \in kinds THEN "text"
        ELSE IF "null" \in kinds THEN "numeric"
        ELSE "integer"

\* At most five sample values a column.
SampleValues == 5

RECURSIVE unique(_)
\* Series.dropna().unique(): the cells that are not empty, each once, in the
\* order of their first appearance.
unique(cells) ==
    IF cells = <<>> THEN <<>>
    ELSE LET before == unique(SubSeq(cells, 1, Len(cells) - 1))
             last == cells[Len(cells)]
         IN  IF last.k = "null" \/ InSeq(last.v, before) THEN before
             ELSE Append(before, last.v)

\* str(val): a whole number of a float64 column is written with ".0".
sample_values(cells) ==
    LET vals == unique(cells)
        shown == SubSeq(vals, 1, IF Len(vals) < SampleValues THEN Len(vals)
                                 ELSE SampleValues)
    IN  [i \in 1..Len(shown) |->
            IF data_type(cells) = "numeric" THEN shown[i] \o <<".", "0">>
            ELSE shown[i]]

\* The analyzer's keyword lists, as its chain of tests writes them.
keywords_company ==
    <<<<"c", "o", "m", "p", "a", "n", "y">>,
    <<"e", "m", "p", "r", "e", "s", "a">>,
    <<"c", "o", "r", "p", "o", "r", "a", "t", "i", "o", "n">>,
    <<"m", "a", "n", "u", "f", "a", "c", "t", "u", "r", "e", "r">>,
    <<"a", "p", "p", "l", "i", "c", "a", "n", "t">>>>
keywords_product ==
    <<<<"p", "r", "o", "d", "u", "c", "t">>,
    <<"m", "e", "d", "i", "c", "a", "m", "e", "n", "t", "o">>,
    <<"d", "r", "u", "g">>, <<"m", "e", "d", "i", "c", "i", "n", "e">>,
    <<"b", "r", "a", "n", "d">>,
    <<"t", "r", "a", "d", "e", "m", "a", "r", "k">>>>
keywords_country ==
    <<<<"c", "o", "u", "n", "t", "r", "y">>, <<"p", "a", "i", "s">>,
    <<"n", "a", "t", "i", "o", "n">>,
    <<"l", "o", "c", "a", "t", "i", "o", "n">>>>
keywords_approval ==
    <<<<"a", "p", "p", "r", "o", "v", "a", "l">>,
    <<"a", "p", "p", "r", "o", "v", "e", "d">>,
    <<"a", "u", "t", "h", "o", "r", "i", "z", "a", "t", "i", "o", "n">>,
    <<"p", "e", "r", "m", "i", "t">>, <<"l", "i", "c", "e", "n", "s", "e">>>>
keywords_date ==
    <<<<"d", "a", "t", "e">>, <<"f", "e", "c", "h", "a">>,
    <<"t", "i", "m", "e">>, <<"y", "e", "a", "r">>,
    <<"m", "o", "n", "t", "h">>>>
keywords_status ==
    <<<<"s", "t", "a", "t", "u", "s">>, <<"e", "s", "t", "a", "d", "o">>,
    <<"s", "t", "a", "t", "e">>,
    <<"c", "o", "n", "d", "i", "t", "i", "o", "n">>>>

\* A chain tested from its last test upwards.
BucketLastWins(col, dtype) ==
    LET col_lower == lower(col)
    IN  IF AnyIn(keywords_status, col_lower) THEN "status"
        ELSE IF AnyIn(keywords_date, col_lower) \/ dtype = "datetime"
        THEN "date"
        ELSE IF AnyIn(keywords_approval, col_lower) THEN "approval"
        ELSE IF AnyIn(keywords_country, col_lower) THEN "country"
        ELSE IF AnyIn(keywords_product, col_lower) THEN "product"
        ELSE IF AnyIn(keywords_company, col_lower) THEN "company"
        ELSE "other"

\* The bucket of one column: the first test of the chain that passes.
Bucket(col, dtype) ==
    LET col_lower == lower(col)
    IN  IF AnyIn(keywords_company, col_lower) THEN "company"
        ELSE IF AnyIn(keywords_product, col_lower) THEN "product"
        ELSE IF AnyIn(keywords_country, col_lower) THEN "country"
        ELSE IF AnyIn(keywords_approval, col_lower) THEN "approval"
        ELSE IF AnyIn(keywords_date, col_lower) \/ dtype = "datetime"
        THEN "date"
        ELSE IF AnyIn(keywords_status, col_lower) THEN "status"
        ELSE "other"

Buckets == {"company", "product", "country", "approval", "date", "status",
            "other"}

\* key_columns: every bucket's columns in the order of the table.
key_columns(columns, data_types) ==
    [b \in Buckets |->
        LET idx == {i \in 1..Len(columns) :
                        Bucket(columns[i], data_types[i]) = b}
            In(col) == \E i \in idx : columns[i] = col
        IN  SelectSeq(columns, In)]

\* The CSVSchemaInfo of a table; data_types and sample_values are kept in the
\* order of the columns.
SchemaOf(df) ==
    LET columns == df.columns
        data_types == [i \in 1..Len(columns) |-> data_type(ColumnCells(df, i))]
    IN  [columns |-> columns,
         data_types |-> data_types,
         sample_values |-> [i \in 1..Len(columns) |->
                               sample_values(ColumnCells(df, i))],
         row_count |-> Len(df.rows),
         key_columns |-> key_columns(columns, data_types)]

\* ---------------------------------------------------- create_query_plan
\* A step of a plan: its description and its validation hint, character by
\* character, and its query.  A query is kept by its clauses: what it selects
\* ("columns" the column names of the table, "rows" whole rows, "distinct"
\* the distinct values of a column, "count_distinct" their number), the
\* column, the alias of the result, the columns of the WHERE clause (a row
\* passes when UPPER of one of them is LIKE '%token%'; none means no WHERE),
\* the token, and the LIMIT (0 for none).
PlanStep(description, sql, validation) ==
    [description |-> description, sql |-> sql, validation |-> validation]
Query(select, column, alias, where, token, limit) ==
    [select |-> select, column |-> column, alias |-> alias, where |-> where,
     token |-> token, limit |-> limit]

\* "how many"
WordHowMany == <<"h", "o", "w", " ", "m", "a", "n", "y">>
\* "count"
WordCount == <<"c", "o", "u", "n", "t">>
\* "companies"
WordCompanies == <<"c", "o", "m", "p", "a", "n", "i", "e", "s">>
\* "products"
WordProducts == <<"p", "r", "o", "d", "u", "c", "t", "s">>
\* "company"
WordCompany == <<"c", "o", "m", "p", "a", "n", "y">>
\* "how many companies"
WordHowManyCompanies ==
    <<"h", "o", "w", " ", "m", "a", "n", "y", " ", "c", "o", "m", "p", "a",
    "n", "i", "e", "s">>
\* "list"
WordList == <<"l", "i", "s", "t">>
\* "what are"
WordWhatAre == <<"w", "h", "a", "t", " ", "a", "r", "e">>
\* "brand"
WordBrand == <<"b", "r", "a", "n", "d">>
\* "generic"
WordGeneric == <<"g", "e", "n", "e", "r", "i", "c">>
\* "name"
WordName == <<"n", "a", "m", "e">>

\* The words that call for the structure step.
StructureWords == <<WordHowMany, WordCount, WordCompanies, WordProducts>>

\* "Explore CSV structure and columns"
DescStructure ==
    <<"E", "x", "p", "l", "o", "r", "e", " ", "C", "S", "V", " ", "s", "t",
    "r", "u", "c", "t", "u", "r", "e", " ", "a", "n", "d", " ", "c", "o",
    "l", "u", "m", "n", "s">>
\* "Should return list of column names"
HintStructure ==
    <<"S", "h", "o", "u", "l", "d", " ", "r", "e", "t", "u", "r", "n", " ",
    "l", "i", "s", "t", " ", "o", "f", " ", "c", "o", "l", "u", "m", "n",
    " ", "n", "a", "m", "e", "s">>
\* "Explore company data in column '"
DescExplore ==
    <<"E", "x", "p", "l", "o", "r", "e", " ", "c", "o", "m", "p", "a", "n",
    "y", " ", "d", "a", "t", "a", " ", "i", "n", " ", "c", "o", "l", "u",
    "m", "n", " ", "'">>
\* "Should return list of company names"
HintExplore ==
    <<"S", "h", "o", "u", "l", "d", " ", "r", "e", "t", "u", "r", "n", " ",
    "l", "i", "s", "t", " ", "o", "f", " ", "c", "o", "m", "p", "a", "n",
    "y", " ", "n", "a", "m", "e", "s">>
\* "Search for product '"
DescSearch ==
    <<"S", "e", "a", "r", "c", "h", " ", "f", "o", "r", " ", "p", "r", "o",
    "d", "u", "c", "t", " ", "'">>
\* "' in Brand Name column '"
DescInBrand ==
    <<"'", " ", "i", "n", " ", "B", "r", "a", "n", "d", " ", "N", "a", "m",
    "e", " ", "c", "o", "l", "u", "m", "n", " ", "'">>
\* "' in Generic Name column '"
DescInGeneric ==
    <<"'", " ", "i", "n", " ", "G", "e", "n", "e", "r", "i", "c", " ", "N",
    "a", "m", "e", " ", "c", "o", "l", "u", "m", "n", " ", "'">>
\* "' in column '"
DescInColumn ==
    <<"'", " ", "i", "n", " ", "c", "o", "l", "u", "m", "n", " ", "'">>
\* "Should return rows with brand name '"
HintBrand ==
    <<"S", "h", "o", "u", "l", "d", " ", "r", "e", "t", "u", "r", "n", " ",
    "r", "o", "w", "s", " ", "w", "i", "t", "h", " ", "b", "r", "a", "n",
    "d", " ", "n", "a", "m", "e", " ", "'">>
\* "Should return rows with generic name '"
HintGeneric ==
    <<"S", "h", "o", "u", "l", "d", " ", "r", "e", "t", "u", "r", "n", " ",
    "r", "o", "w", "s", " ", "w", "i", "t", "h", " ", "g", "e", "n", "e",
    "r", "i", "c", " ", "n", "a", "m", "e", " ", "'">>
\* "Should return rows containing '"
HintContaining ==
    <<"S", "h", "o", "u", "l", "d", " ", "r", "e", "t", "u", "r", "n", " ",
    "r", "o", "w", "s", " ", "c", "o", "n", "t", "a", "i", "n", "i", "n",
    "g", " ", "'">>
\* "Count distinct companies that have registered "
DescCount ==
    <<"C", "o", "u", "n", "t", " ", "d", "i", "s", "t", "i", "n", "c", "t",
    " ", "c", "o", "m", "p", "a", "n", "i", "e", "s", " ", "t", "h", "a",
    "t", " ", "h", "a", "v", "e", " ", "r", "e", "g", "i", "s", "t", "e",
    "r", "e", "d", " ">>
\* " (checking multiple columns)"
DescCountEnd ==
    <<" ", "(", "c", "h", "e", "c", "k", "i", "n", "g", " ", "m", "u", "l",
    "t", "i", "p", "l", "e", " ", "c", "o", "l", "u", "m", "n", "s", ")">>
\* "Should return count of companies with "
HintCount ==
    <<"S", "h", "o", "u", "l", "d", " ", "r", "e", "t", "u", "r", "n", " ",
    "c", "o", "u", "n", "t", " ", "o", "f", " ", "c", "o", "m", "p", "a",
    "n", "i", "e", "s", " ", "w", "i", "t", "h", " ">>
\* "List companies that have registered "
DescList ==
    <<"L", "i", "s", "t", " ", "c", "o", "m", "p", "a", "n", "i", "e", "s",
    " ", "t", "h", "a", "t", " ", "h", "a", "v", "e", " ", "r", "e", "g",
    "i", "s", "t", "e", "r", "e", "d", " ">>
\* " (from all relevant columns)"
DescListEnd ==
    <<" ", "(", "f", "r", "o", "m", " ", "a", "l", "l", " ", "r", "e", "l",
    "e", "v", "a", "n", "t", " ", "c", "o", "l", "u", "m", "n", "s", ")">>
\* "Should return names of companies with "
HintList ==
    <<"S", "h", "o", "u", "l", "d", " ", "r", "e", "t", "u", "r", "n", " ",
    "n", "a", "m", "e", "s", " ", "o", "f", " ", "c", "o", "m", "p", "a",
    "n", "i", "e", "s", " ", "w", "i", "t", "h", " ">>
\* "'"
Apostrophe == <<"'">>
\* "column_name"
KeyColumnName == <<"c", "o", "l", "u", "m", "n", "_", "n", "a", "m", "e">>
\* "company_count"
KeyCompanyCount ==
    <<"c", "o", "m", "p", "a", "n", "y", "_", "c", "o", "u", "n", "t">>
\* "company_name"
KeyCompanyName ==
    <<"c", "o", "m", "p", "a", "n", "y", "_", "n", "a", "m", "e">>

\* \w of the regular expression: a letter, a digit or the underscore.
IsWordChar(c) == isupper(c) \/ islower(c) \/ isdigit(c) \/ c = "_"

\* re.findall(r'\b[A-Z][A-Z0-9]+\b', objective): the runs of word characters
\* that are two or more capitals and digits, a capital first, left to right.
potential_products(objective) ==
    LET n == Len(objective)
        Starts(i) == IsWordChar(objective[i])
                     /\ (i = 1 \/ ~IsWordChar(objective[i - 1]))
        End(i) == CHOOSE j \in i..n :
                      /\ \A k \in i..j : IsWordChar(objective[k])
                      /\ (j = n \/ ~IsWordChar(objective[j + 1]))
        Fits(i) == /\ Starts(i)
                   /\ isupper(objective[i])
                   /\ End(i) > i
                   /\ \A k \in (i + 1)..End(i) :
                         isupper(objective[k]) \/ isdigit(objective[k])
        RECURSIVE From(_)
        From(i) == IF i > n THEN <<>>
                   ELSE IF Fits(i)
                   THEN <<SubSeq(objective, i, End(i))>> \o From(End(i) + 1)
                   ELSE From(i + 1)
    IN  From(1)

\* The loop over schema_info.columns: brand_name_col is the last column whose
\* name holds "brand" and "name"; generic_name_col the last of the others
\* whose name holds "generic" and "name".  None when there is no such column.
IsBrandName(col) == InStr(WordBrand, lower(col)) /\ InStr(WordName, lower(col))
IsGenericName(col) ==
    /\ ~IsBrandName(col)
    /\ InStr(WordGeneric, lower(col)) /\ InStr(WordName, lower(col))
brand_name_col(columns) ==
    LET hit == {i \in 1..Len(columns) : IsBrandName(columns[i])}
    IN  IF hit = {} THEN None
        ELSE columns[CHOOSE i \in hit : \A j \in hit : j <= i]
generic_name_col(columns) ==
    LET hit == {i \in 1..Len(columns) : IsGenericName(columns[i])}
    IN  IF hit = {} THEN None
        ELSE columns[CHOOSE i \in hit : \A j \in hit : j <= i]

\* Step 1: the structure of the table.
StructureStep ==
    PlanStep(DescStructure,
             Query("columns", <<>>, KeyColumnName, <<>>, <<>>, 0),
             HintStructure)
\* Step 2: ten distinct values of the first company column.
ExploreStep(main_company_col) ==
    PlanStep(DescExplore \o main_company_col \o Apostrophe,
             Query("distinct", main_company_col, main_company_col, <<>>, <<>>,
                   10),
             HintExplore)
\* Step 3: five rows where a column holds the product, as a brand name, as a
\* generic name, or in the first product column.
SearchStep(product, InColumn, col, Hint) ==
    PlanStep(DescSearch \o product \o InColumn \o col \o Apostrophe,
             Query("rows", <<>>, <<>>, <<col>>, upper(product), 5),
             Hint \o product \o Apostrophe)
\* Step 4: the number of distinct companies over the rows where one of the
\* columns holds the product, and their names.
CountStep(product, main_company_col, where_conditions) ==
    PlanStep(DescCount \o product \o DescCountEnd,
             Query("count_distinct", main_company_col, KeyCompanyCount,
                   where_conditions, upper(product), 0),
             HintCount \o product)
ListStep(product, main_company_col, where_conditions) ==
    PlanStep(DescList \o product \o DescListEnd,
             Query("distinct", main_company_col, KeyCompanyName,
                   where_conditions, upper(product), 0),
             HintList \o product)

\* A rule that names a numeric result for any word of the structure step.
ResultTypeByStructureWords(objective_lower) ==
    IF AnyIn(StructureWords, objective_lower)
    THEN "numeric_count_with_details"
    ELSE IF InStr(WordList, objective_lower) \/ InStr(WordWhatAre, objective_lower)
    THEN "list_of_items"
    ELSE "general_information"

expected_result_type(objective_lower) ==
    IF InStr(WordHowMany, objective_lower) \/ InStr(WordCount, objective_lower)
    THEN "numeric_count_with_details"
    ELSE IF InStr(WordList, objective_lower) \/ InStr(WordWhatAre, objective_lower)
    THEN "list_of_items"
    ELSE "general_information"

\* The search steps of step 3, given the product and the product columns.
SearchSteps(product, columns, product_cols) ==
    LET brand == brand_name_col(columns)
        generic == generic_name_col(columns)
    IN  IF product = None \/ product_cols = <<>> THEN <<>>
        ELSE (IF brand # None
              THEN <<SearchStep(product, DescInBrand, brand, HintBrand)>>
              ELSE <<>>)
             \o (IF generic # None
                 THEN <<SearchStep(product, DescInGeneric, generic,
                                   HintGeneric)>>
                 ELSE <<>>)
             \o (IF brand = None /\ generic = None
                 THEN <<SearchStep(product, DescInColumn, product_cols[1],
                                   HintContaining)>>
                 ELSE <<>>)

\* Counting steps that look at the brand name alone.
CountingStepsBrandOnly(objective_lower, product, columns, company_cols) ==
    LET brand == brand_name_col(columns)
    IN  IF /\ InStr(WordHowManyCompanies, objective_lower)
           /\ product # None
           /\ company_cols # <<>>
           /\ brand # None
        THEN <<CountStep(product, company_cols[1], <<brand>>),
               ListStep(product, company_cols[1], <<brand>>)>>
        ELSE <<>>

\* The counting steps of step 4.
CountingSteps(objective_lower, product, columns, company_cols) ==
    LET brand == brand_name_col(columns)
        generic == generic_name_col(columns)
        where_conditions == (IF brand # None THEN <<brand>> ELSE <<>>)
                            \o (IF generic # None THEN <<generic>> ELSE <<>>)
    IN  IF /\ InStr(WordHowManyCompanies, objective_lower)
           /\ product # None
           /\ company_cols # <<>>
           /\ where_conditions # <<>>
        THEN <<CountStep(product, company_cols[1], where_conditions),
               ListStep(product, company_cols[1], where_conditions)>>
        ELSE <<>>

\* A variant of create_query_plan that appends the counting steps before
\* the search steps.
PlanCountingBeforeSearch(objective, schema_info) ==
    LET objective_lower == lower(objective)
        company_cols == schema_info.key_columns["company"]
        product_cols == schema_info.key_columns["product"]
        found == potential_products(objective)
        product_mentioned == IF found = <<>> THEN None ELSE found[1]
    IN  [objective |-> objective,
         steps |->
            (IF AnyIn(StructureWords, objective_lower)
             THEN <<StructureStep>> ELSE <<>>)
            \o (IF /\ \/ InStr(WordCompany, objective_lower)
                      \/ InStr(WordCompanies, objective_lower)
                   /\ company_cols # <<>>
                THEN <<ExploreStep(company_cols[1])>> ELSE <<>>)
            \o CountingSteps(objective_lower, product_mentioned,
                             schema_info.columns, company_cols)
            \o SearchSteps(product_mentioned, schema_info.columns, product_cols),
         expected_result_type |-> expected_result_type(objective_lower)]

create_query_plan(objective, schema_info) ==
    LET objective_lower == lower(objective)
        company_cols == schema_info.key_columns["company"]
        product_cols == schema_info.key_columns["product"]
        found == potential_products(objective)
        product_mentioned == IF found = <<>> THEN None ELSE found[1]
    IN  [objective |-> objective,
         steps |->
            (IF AnyIn(StructureWords, objective_lower)
             THEN <<StructureStep>> ELSE <<>>)
            \o (IF /\ \/ InStr(WordCompany, objective_lower)
                      \/ InStr(WordCompanies, objective_lower)
                   /\ company_cols # <<>>
                THEN <<ExploreStep(company_cols[1])>> ELSE <<>>)
            \o SearchSteps(product_mentioned, schema_info.columns, product_cols)
            \o CountingSteps(objective_lower, product_mentioned,
                             schema_info.columns, company_cols),
         expected_result_type |-> expected_result_type(objective_lower)]

\* -------------------------------------------- the names the runs draw from
\* The most columns a table or a list of columns has.
MaxCols == 2

\* "Company"
ColCompany == <<"C", "o", "m", "p", "a", "n", "y">>
\* "Corp"
ColCorp == <<"C", "o", "r", "p">>
\* "BrandName"
ColBrandName == <<"B", "r", "a", "n", "d", "N", "a", "m", "e">>
\* "Generic Name"
ColGenericName ==
    <<"G", "e", "n", "e", "r", "i", "c", " ", "N", "a", "m", "e">>
\* "Country"
ColCountry == <<"C", "o", "u", "n", "t", "r", "y">>
\* " Name"
ColPaddedName == <<" ", "N", "a", "m", "e">>
\* "name"
ColPlainName == <<"n", "a", "m", "e">>
\* "Updated"
ColUpdated == <<"U", "p", "d", "a", "t", "e", "d">>
\* "Status"
ColStatus == <<"S", "t", "a", "t", "u", "s">>
\* "Approval Date"
ColApprovalDate ==
    <<"A", "p", "p", "r", "o", "v", "a", "l", " ", "D", "a", "t", "e">>
ColumnNames ==
    {ColApprovalDate, ColCompany, ColCorp, ColBrandName, ColGenericName,
     ColCountry, ColPaddedName, ColPlainName, ColUpdated, ColStatus}

\* The lists of at most MaxCols column names, no name twice: pandas renames a
\* repeated header, so a table never has two columns of one name.
ColumnLists ==
    {cols \in SeqsUpTo(ColumnNames, MaxCols) :
        \A i, j \in 1..Len(cols) : cols[i] = cols[j] => i = j}

\* "NAME"
TargetName == <<"N", "A", "M", "E">>
\* "Name "
TargetPadded == <<"N", "a", "m", "e", " ">>
\* "company"
TargetCompany == <<"c", "o", "m", "p", "a", "n", "y">>
\* "compny"
TargetCompny == <<"c", "o", "m", "p", "n", "y">>
\* "corp"
TargetCorp == <<"c", "o", "r", "p">>
\* "Brand"
TargetBrand == <<"B", "r", "a", "n", "d">>
\* "maker"
TargetMaker == <<"m", "a", "k", "e", "r">>
\* "state"
TargetState == <<"s", "t", "a", "t", "e">>
\* "generic_name"
TargetGeneric ==
    <<"g", "e", "n", "e", "r", "i", "c", "_", "n", "a", "m", "e">>
Targets ==
    {TargetName, TargetPadded, TargetCompany, TargetCompny, TargetCorp,
     TargetBrand, TargetMaker, TargetState, TargetGeneric}

\* ------------------------------------------ find_best_column_match's runs
MatchIdle == cm_pc = "idle" /\ cm_in = <<>> /\ cm_out = <<>>

MatchInit ==
    /\ cm_pc = "call"
    /\ cm_in \in [target : Targets, available_columns : ColumnLists]
    /\ cm_out = <<>>

MatchCall ==
    /\ cm_pc = "call"
    /\ cm_out' = find_best_column_match(cm_in.target, cm_in.available_columns,
                                        Threshold)
    /\ cm_pc' = "done"
    /\ UNCHANGED <<cm_in, sa_vars, pl_vars, fl_vars, io_vars>>

MatchNext == MatchCall

\* ---------------------------------------------- analyze_csv_schema's runs
\* The fillings of a column, six rows each: whole numbers, whole numbers with
\* gaps, text, and nothing but gaps.
ValOne == <<"1">>
ValTwo == <<"2">>
ValThree == <<"3">>
ValFour == <<"4">>
ValFive == <<"5">>
ValSix == <<"6">>
ValAcme == <<"A", "c", "m", "e">>
ValBolt == <<"B", "o", "l", "t">>
Fillings ==
    [ints |-> <<IntCell(ValOne), IntCell(ValTwo), IntCell(ValThree),
                IntCell(ValFour), IntCell(ValFive), IntCell(ValSix)>>,
     gaps |-> <<IntCell(ValOne), NullCell, IntCell(ValOne), NullCell,
                IntCell(ValTwo), NullCell>>,
     text |-> <<TextCell(ValAcme), TextCell(ValAcme), TextCell(ValBolt),
                IntCell(ValOne), NullCell, TextCell(ValAcme)>>,
     void |-> <<NullCell, NullCell, NullCell, NullCell, NullCell, NullCell>>]
FillingRows == Len(Fillings.ints)
FillingNames == <<"ints", "gaps", "text", "void">>

\* The table of the given columns, the fillings dealt to the columns in turn
\* from the given one on.
FilledTable(columns, from) ==
    [columns |-> columns,
     rows |-> [r \in 1..FillingRows |->
                  [i \in 1..Len(columns) |->
                      Fillings[FillingNames[
                          ((from + i) % Len(FillingNames)) + 1]][r]]]]

\* The tables: the header alone, and the fillings of every list of columns.
Tables ==
    {[columns |-> cols, rows |-> <<>>] : cols \in ColumnLists \ {<<>>}}
    \cup {FilledTable(cols, from) :
             cols \in ColumnLists \ {<<>>}, from \in 1..Len(FillingNames)}

\* What the bucket holds under the file's name: nothing the download gives
\* back, bytes pandas cannot read, or a table.
Files ==
    {[bytes |-> "none", df |-> <<>>], [bytes |-> "unreadable", df |-> <<>>]}
    \cup {[bytes |-> "csv", df |-> df] : df \in Tables}

\* The exception the analyzer raises, whatever went wrong inside it.
SchemaRaise(cause) == [kind |-> "raise", cause |-> cause]
SchemaReturn(schema) == [kind |-> "schema", schema |-> schema]

SchemaIdle ==
    sa_pc = "idle" /\ sa_in = <<>> /\ sa_df = <<>> /\ sa_out = <<>>

SchemaInit ==
    /\ sa_pc = "download"
    /\ sa_in \in Files
    /\ sa_df = <<>>
    /\ sa_out = <<>>

\* The download; no bytes raise "Could not download CSV file".
SchemaDownload ==
    /\ sa_pc = "download"
    /\ IF sa_in.bytes = "none"
       THEN sa_pc' = "done" /\ sa_out' = SchemaRaise("download")
       ELSE sa_pc' = "read" /\ sa_out' = sa_out
    /\ UNCHANGED <<sa_in, sa_df, cm_vars, pl_vars, fl_vars, io_vars>>

\* pd.read_csv; what it raises is raised again under the analyzer's message.
SchemaRead ==
    /\ sa_pc = "read"
    /\ IF sa_in.bytes = "unreadable"
       THEN sa_pc' = "done" /\ sa_out' = SchemaRaise("read") /\ sa_df' = sa_df
       ELSE sa_pc' = "analyze" /\ sa_out' = sa_out /\ sa_df' = sa_in.df
    /\ UNCHANGED <<sa_in, cm_vars, pl_vars, fl_vars, io_vars>>

\* The types, the samples and the buckets, and the return.
SchemaAnalyze ==
    /\ sa_pc = "analyze"
    /\ sa_out' = SchemaReturn(SchemaOf(sa_df))
    /\ sa_pc' = "done"
    /\ UNCHANGED <<sa_in, sa_df, cm_vars, pl_vars, fl_vars, io_vars>>

SchemaNext == SchemaDownload \/ SchemaRead \/ SchemaAnalyze

\* ------------------------------------------------ a plan run on a table
\* The engine's answer to a query: rows of keys and cells.  The columns are
\* text; DISTINCT keeps the order of first appearance and keeps an empty
\* cell as a value, COUNT(DISTINCT) leaves empty cells out.
ColumnIndex(df, col) == CHOOSE i \in 1..Len(df.columns) : df.columns[i] = col
CellHolds(cell, token) == cell.k # "null" /\ InStr(token, upper(cell.v))
RowPasses(df, row, sql) ==
    \/ sql.where = <<>>
    \/ \E w \in 1..Len(sql.where) :
          CellHolds(row[ColumnIndex(df, sql.where[w])], sql.token)
Passing(df, sql) == SelectSeq(df.rows, LAMBDA row : RowPasses(df, row, sql))
Limited(rows, limit) ==
    IF limit = 0 \/ Len(rows) <= limit THEN rows ELSE SubSeq(rows, 1, limit)

RECURSIVE DistinctCells(_)
DistinctCells(cells) ==
    IF cells = <<>> THEN <<>>
    ELSE LET before == DistinctCells(SubSeq(cells, 1, Len(cells) - 1))
             last == cells[Len(cells)]
         IN  IF \E i \in 1..Len(before) : before[i] = last THEN before
             ELSE Append(before, last)

NumberCell(n) == [k |-> "number", v |-> n]

Fetch(df, sql) ==
    LET passing == Passing(df, sql)
        picked == [r \in 1..Len(passing) |->
                      passing[r][ColumnIndex(df, sql.column)]]
        distinct == DistinctCells(picked)
        limited == Limited(distinct, sql.limit)
        named == SelectSeq(distinct, LAMBDA cell : cell.k # "null")
    IN  CASE sql.select = "columns" ->
               [i \in 1..Len(df.columns) |->
                   [keys |-> <<sql.alias>>,
                    cells |-> <<TextCell(df.columns[i])>>]]
          [] sql.select = "rows" ->
               [r \in 1..Len(Limited(passing, sql.limit)) |->
                   [keys |-> df.columns, cells |-> passing[r]]]
          [] sql.select = "distinct" ->
               [r \in 1..Len(limited) |->
                   [keys |-> <<sql.alias>>, cells |-> <<limited[r]>>]]
          [] sql.select = "count_distinct" ->
               <<[keys |-> <<sql.alias>>,
                  cells |-> <<NumberCell(Len(named))>>]>>

\* What the executor reads of a row: whether a key, or the row as printed,
\* holds "count", and the first value.
ResultRow(row) ==
    [key_count |-> \E i \in 1..Len(row.keys) :
                       InStr(WordCount, lower(row.keys[i])),
     val_count |-> \E i \in 1..Len(row.cells) :
                       /\ row.cells[i].k \in {"text", "int"}
                       /\ InStr(WordCount, lower(row.cells[i].v)),
     value |-> row.cells[1].v]

\* What the executor reads of a step and of a plan: the two substring tests
\* on the description and on the validation hint, and "how many" in the
\* objective.
HintOf(validation) ==
    LET count == InStr(WordCount, lower(validation))
        list == InStr(WordList, lower(validation))
    IN  IF count /\ list THEN "count+list"
        ELSE IF count THEN "count"
        ELSE IF list THEN "list"
        ELSE "none"
ExecStep(step) ==
    [desc_count |-> InStr(WordCount, lower(step.description)),
     hint |-> HintOf(step.validation)]
ExecPlan(plan) ==
    [how_many |-> InStr(WordHowMany, lower(plan.objective)),
     steps |-> [i \in 1..Len(plan.steps) |-> ExecStep(plan.steps[i])]]

RECURSIVE RunSteps(_, _, _, _, _)
\* The loop over the steps, every query answered by the engine.
RunSteps(plan, df, i, r, srs) ==
    IF i > Len(plan.steps) THEN [results |-> r, step_results |-> srs]
    ELSE LET fetched == Fetch(df, plan.steps[i].sql)
             rows == [k \in 1..Len(fetched) |-> ResultRow(fetched[k])]
             sr == StepRan(i, ExecStep(plan.steps[i]), rows)
         IN  RunSteps(plan, df, i + 1, AfterStepRan(r, i, sr), Append(srs, sr))

\* execute_query_plan once the table is loaded: the loop and the report.
RunPlan(plan, df) ==
    LET ran == RunSteps(plan, df, 1, NewResults, <<>>)
    IN  Synthesize(ExecPlan(plan), ran.results, ran.step_results)

\* ------------------------------------------------ create_query_plan's runs
\* "How many companies have registered TIAROTEC?"
AskHowManyTiarotec ==
    <<"H", "o", "w", " ", "m", "a", "n", "y", " ", "c", "o", "m", "p", "a",
    "n", "i", "e", "s", " ", "h", "a", "v", "e", " ", "r", "e", "g", "i",
    "s", "t", "e", "r", "e", "d", " ", "T", "I", "A", "R", "O", "T", "E",
    "C", "?">>
\* "List companies"
AskListCompanies ==
    <<"L", "i", "s", "t", " ", "c", "o", "m", "p", "a", "n", "i", "e", "s">>
\* "Find TIAROTEC"
AskFindTiarotec ==
    <<"F", "i", "n", "d", " ", "T", "I", "A", "R", "O", "T", "E", "C">>
\* "What are the products?"
AskWhatProducts ==
    <<"W", "h", "a", "t", " ", "a", "r", "e", " ", "t", "h", "e", " ", "p",
    "r", "o", "d", "u", "c", "t", "s", "?">>
\* "how many companies sell CT-11"
AskHowManyCt ==
    <<"h", "o", "w", " ", "m", "a", "n", "y", " ", "c", "o", "m", "p", "a",
    "n", "i", "e", "s", " ", "s", "e", "l", "l", " ", "C", "T", "-", "1", "1">>
\* "Count products of ACME2 Inc"
AskCountAcme ==
    <<"C", "o", "u", "n", "t", " ", "p", "r", "o", "d", "u", "c", "t", "s",
    " ", "o", "f", " ", "A", "C", "M", "E", "2", " ", "I", "n", "c">>
\* "Show the company of tiarotec"
AskCompanyOf ==
    <<"S", "h", "o", "w", " ", "t", "h", "e", " ", "c", "o", "m", "p", "a",
    "n", "y", " ", "o", "f", " ", "t", "i", "a", "r", "o", "t", "e", "c">>
\* "Describe the data"
AskDescribe ==
    <<"D", "e", "s", "c", "r", "i", "b", "e", " ", "t", "h", "e", " ", "d",
    "a", "t", "a">>
Objectives ==
    {AskHowManyTiarotec,
     AskListCompanies,
     AskFindTiarotec,
     AskWhatProducts,
     AskHowManyCt,
     AskCountAcme,
     AskCompanyOf,
     AskDescribe}

\* "Product"
ColProduct == <<"P", "r", "o", "d", "u", "c", "t">>
\* "Old Brand Name"
ColOldBrandName ==
    <<"O", "l", "d", " ", "B", "r", "a", "n", "d", " ", "N", "a", "m", "e">>
\* "Company Country"
ColCompanyCountry ==
    <<"C", "o", "m", "p", "a", "n", "y", " ", "C", "o", "u", "n", "t", "r", "y">>
ValCord == <<"C", "o", "r", "d">>
ValTiarotec10 ==
    <<"T", "i", "a", "r", "o", "t", "e", "c", " ", "1", "0", "m", "g">>
ValTiarotecCaps == <<"T", "I", "A", "R", "O", "T", "E", "C">>
ValTiarotecLower == <<"t", "i", "a", "r", "o", "t", "e", "c">>
ValZed == <<"Z", "e", "d">>

\* The fixture: four registrations.  By the second column Acme has two rows
\* that hold the product; by the third Bolt has one; Cord has none.
FixtureRows ==
    <<<<TextCell(ValAcme), TextCell(ValTiarotec10), TextCell(ValZed)>>,
      <<TextCell(ValBolt), TextCell(ValZed), TextCell(ValTiarotecLower)>>,
      <<TextCell(ValAcme), TextCell(ValTiarotecCaps), NullCell>>,
      <<TextCell(ValCord), TextCell(ValZed), TextCell(ValZed)>>>>

\* The headers the plans are built for.
PlanHeaders ==
    {<<ColCompany, ColBrandName, ColGenericName>>,
     <<ColCompany, ColGenericName>>,
     <<ColCompany, ColOldBrandName, ColBrandName>>,
     <<ColCorp, ColBrandName>>,
     <<ColCompany, ColProduct>>,
     <<ColCompanyCountry, ColBrandName>>}

\* The fixture under a header, cut to the header's width.
Fixture(columns) ==
    [columns |-> columns,
     rows |-> [r \in 1..Len(FixtureRows) |->
                  SubSeq(FixtureRows[r], 1, Len(columns))]]

PlanTables ==
    {Fixture(columns) : columns \in PlanHeaders}
    \cup {[columns |-> columns, rows |-> <<>>] : columns \in PlanHeaders}

PlanInit ==
    /\ pl_pc = "plan"
    /\ pl_in \in [objective : Objectives, df : PlanTables]
    /\ pl_out = [plan |-> <<>>, results |-> <<>>]

\* query_csv's objective path: the schema is analyzed and the plan built.
PlanBuild ==
    /\ pl_pc = "plan"
    /\ pl_out' = [pl_out EXCEPT
                     !.plan = create_query_plan(pl_in.objective,
                                                SchemaOf(pl_in.df))]
    /\ pl_pc' = "execute"
    /\ UNCHANGED <<pl_in, cm_vars, sa_vars, fl_vars, io_vars>>

\* The plan is executed on the table.
PlanExecute ==
    /\ pl_pc = "execute"
    /\ pl_out' = [pl_out EXCEPT !.results = RunPlan(pl_out.plan, pl_in.df)]
    /\ pl_pc' = "done"
    /\ UNCHANGED <<pl_in, cm_vars, sa_vars, fl_vars, io_vars>>

PlanNext == PlanBuild \/ PlanExecute

\* --------------------------------------- extract_relevant_sections' runs
\* The most units of a drawn text.
MaxFilterUnits == 3
\* A text of many sections: SectionCount sections of SectionWords
\* words "dosage", every one but the first under a header of its own.
SectionWords == 798
SectionCount == 10

RECURSIVE ManySections(_)
ManySections(n) ==
    IF n = 0 THEN <<>>
    ELSE IF n = 1 THEN <<Q(SectionWords)>>
    ELSE ManySections(n - 1) \o <<Header, Q(SectionWords)>>

\* n words "safety", the regulatory keyword.
Safety(n) == [k |-> "w", n |-> n, t |-> "r"]

\* Three sections of equal score: the first fits the budget, the second
\* does not fit after it, the third would.
SkipText == <<Q(4000), Header, Q(4000), Header, Q(3000)>>
\* Three sections, the first of the lowest score: the two that follow it
\* rank before it and leave no room for it.
RankText == <<Safety(4000), Header, Q(4000), Header, Q(3000)>>

\* Two sections with twelve newlines between them and no header.
RunText == <<Q(9)>> \o BreakRun(6) \o <<Safety(9)>>
FilterUnits == {Q(3998), Q(4000), W(4000), Header, PBreak}
FilterTexts ==
    SeqsUpTo(FilterUnits, MaxFilterUnits)
    \cup {ManySections(SectionCount), SkipText, RankText, RunText}

FilterIdle == fl_pc = "idle" /\ fl_in = <<>> /\ fl_out = <<>>

FilterInit ==
    /\ fl_pc = "call"
    /\ fl_in \in [text : FilterTexts, query : Queries, enc : Encodings]
    /\ fl_out = <<>>

FilterCall ==
    /\ fl_pc = "call"
    /\ fl_out' = extract_relevant_sections(fl_in.text, fl_in.query, fl_in.enc)
    /\ fl_pc' = "done"
    /\ UNCHANGED <<fl_in, cm_vars, sa_vars, pl_vars, io_vars>>

FilterNext == FilterCall

\* ------------------------------------------------- the other functions idle
PlanIdle == pl_pc = "idle" /\ pl_in = <<>> /\ pl_out = <<>>
PureIdle == MatchIdle /\ SchemaIdle /\ PlanIdle /\ FilterIdle

\* ------------------------------------------------------- specifications
\* execute_query_plan on every plan and every outcome of its collaborators.
Init ==
    /\ ExecInit /\ ChunkIdle /\ SumIdle /\ PdfIdle /\ CsvIdle
    /\ PureIdle
Spec == Init /\ [][Next]_vars

\* chunk_text_intelligently on every text, budget and encoding.
InitChunk ==
    /\ ChunkInit /\ ExecIdle /\ SumIdle /\ PdfIdle /\ CsvIdle
    /\ PureIdle
SpecChunk == InitChunk /\ [][ChunkNext]_vars

\* summarize_text_chunk on every text, key setting and model outcome.
InitSum ==
    /\ SumInit /\ ExecIdle /\ ChunkIdle /\ PdfIdle /\ CsvIdle
    /\ PureIdle

\* read_pdf on every document, query, encoding and collaborator outcome.
InitPdf ==
    /\ PdfInit /\ ExecIdle /\ ChunkIdle /\ SumIdle /\ CsvIdle
    /\ PureIdle
SpecPdf == InitPdf /\ [][PdfNext]_vars

\* query_csv on every argument pattern and collaborator outcome, the executor
\* running inside it.
InitCsv ==
    /\ CsvInit /\ ExecIdle /\ ChunkIdle /\ SumIdle /\ PdfIdle
    /\ PureIdle
SpecCsv == InitCsv /\ [][CsvNext]_vars
SpecSum == InitSum /\ [][SumNext]_vars

\* find_best_column_match on every target and list of columns.
InitMatch ==
    /\ MatchInit /\ SchemaIdle /\ PlanIdle /\ FilterIdle
    /\ ExecIdle /\ ChunkIdle /\ SumIdle /\ PdfIdle /\ CsvIdle
SpecMatch == InitMatch /\ [][MatchNext]_vars

\* create_query_plan on every objective and table, and the plan's run.
InitPlan ==
    /\ PlanInit /\ MatchIdle /\ SchemaIdle /\ FilterIdle
    /\ ExecIdle /\ ChunkIdle /\ SumIdle /\ PdfIdle /\ CsvIdle
SpecPlan == InitPlan /\ [][PlanNext]_vars

\* extract_relevant_sections on every text, query and encoding.
InitFilter ==
    /\ FilterInit /\ MatchIdle /\ SchemaIdle /\ PlanIdle
    /\ ExecIdle /\ ChunkIdle /\ SumIdle /\ PdfIdle /\ CsvIdle
SpecFilter == InitFilter /\ [][FilterNext]_vars

\* analyze_csv_schema on every file.
InitSchema ==
    /\ SchemaInit /\ MatchIdle /\ PlanIdle /\ FilterIdle
    /\ ExecIdle /\ ChunkIdle /\ SumIdle /\ PdfIdle /\ CsvIdle
SpecSchema == InitSchema /\ [][SchemaNext]_vars

\* ---------------------------------------------------- claims: the executor
\* C1: when the setup succeeded, the report holds one step result per plan
\* step, in plan order (step_number = position); the steps whose query raised
\* have success = FALSE, the others TRUE, and the report's success is TRUE.
C1_StepFailureNeverAborts ==
    (ex_pc = "done" /\ ex_env.setup = "ok") =>
        /\ results.success
        /\ Len(results.steps_executed) = Len(ex_plan.steps)
        /\ Len(ex_env.raised) = Len(ex_plan.steps)
        /\ \A i \in 1..Len(ex_plan.steps) :
               /\ results.steps_executed[i].step_number = i
               /\ results.steps_executed[i].success = ~ex_env.raised[i]

\* A finished run of a two-step plan whose first query raised and whose
\* second returned rows.
C1_Witness ==
    /\ ex_pc = "done"
    /\ ex_env.setup = "ok"
    /\ ex_env.raised = <<TRUE, FALSE>>
    /\ Len(results.steps_executed) = 2

\* C2: success is FALSE exactly when the setup failed; then the run has ended
\* at once, the one error is recorded in errors and no step was executed; no
\* step failure and no validation failure makes success FALSE.
C2_SuccessFalseIffSetupFailed ==
    /\ results.success <=> ex_env.setup \in {"pending", "ok"}
    /\ ~results.success =>
           /\ ex_pc = "done"
           /\ Len(results.errors) = 1
           /\ results.errors[1].kind \in {"download", "critical"}
           /\ step_results = <<>>
           /\ results.steps_executed = <<>>
           /\ ex_env.raised = <<>>

\* A finished run whose dataset could not be parsed.
C2_Witness ==
    /\ ex_pc = "done"
    /\ ex_env.setup = "raised"
    /\ ~results.success
    /\ Len(ex_plan.steps) = 2

\* ----------------------------------------------------- claims: the chunker
RECURSIVE Flatten(_)
Flatten(chunks) == IF chunks = <<>> THEN <<>> ELSE Head(chunks) \o Flatten(Tail(chunks))

\* What a text holds once its whitespace is set aside: its words, sentences
\* and header lines, in order.
Content(text) ==
    LET inked == SelectSeq(text, LAMBDA u : ~IsSpace(u))
    IN  [i \in 1..Len(inked) |->
            IF inked[i].k = "H" THEN HeaderWords ELSE inked[i]]

\* A chunk that is one sentence: no paragraph break and no sentence boundary.
IsOneSentence(chunk) ==
    /\ \A i \in 1..Len(chunk) : chunk[i].k # "P"
    /\ Len(SplitSentences(chunk)) = 1

\* C3: the chunks, concatenated in order and with the injected separators set
\* aside, hold the content of the original text: nothing of the source, its
\* header lines included, is lost, duplicated or reordered.
C3_ChunksReproduceText ==
    ck_pc = "done" => Content(Flatten(ck_out)) = Content(ck_in.text)

\* C4: no chunk counts more tokens than max_chunk_tokens, except a chunk that
\* is one single sentence.
C4_ChunksWithinBudget ==
    ck_pc = "done" =>
        \A i \in 1..Len(ck_out) :
            \/ AtMost(count_tokens(ck_out[i], ck_in.enc),
                      Whole(ck_in.max_chunk_tokens))
            \/ IsOneSentence(ck_out[i])

\* -------------------------------------------------- claims: the summarizer
\* The model call failed by raising: the client or the request raised, the
\* response held no choice, or its content was None.
CallRaised(in) == in.llm.kind \in {"raise", "no_choices", "null_content"}

\* The response came back with nothing in it: no choice, no content, or a
\* content that is empty once stripped.
EmptyResponse(in) ==
    \/ in.llm.kind \in {"no_choices", "null_content"}
    \/ in.llm.kind = "content" /\ Strip(in.llm.content) = <<>>

\* out is the first 2000 characters of text and an ellipsis when text is
\* longer than 2000 characters, and text itself otherwise.
IsTruncationOf(out, text) ==
    IF Chars(text) > TruncateAt
    THEN out = Take(text, TruncateAt) \o <<Ellipsis>>
    ELSE out = text

\* C9 as stated: summarize_text_chunk never raises, and without an API key or
\* when the call fails in any way (exception, malformed or empty response) it
\* returns the truncation of the chunk.
C9_FallbackOnAnyFailure ==
    sm_pc = "done" =>
        /\ ~sm_out.raised
        /\ (~sm_in.api_key \/ CallRaised(sm_in) \/ EmptyResponse(sm_in))
               => IsTruncationOf(sm_out.text, sm_in.text)

\* ------------------------------------------------------- claims: read_pdf
\* The text read_pdf extracted: the pages that gave text, joined.
Extracted == JoinWith(Divider, text_content(pd_in.pages))
ExtractedTokens == count_tokens(Extracted, pd_in.enc)

\* The document was opened and gave some text.
HasExtracted ==
    /\ pd_pc # "idle"
    /\ pd_env.open = "ok"
    /\ text_content(pd_in.pages) # <<>>

CallsTo(component) ==
    {i \in 1..Len(pd_calls) : pd_calls[i].component = component}

\* C5: a document of at most 8000 tokens, with or without a focus query, is
\* returned as extracted, without annotation, and neither the filter, the
\* chunker nor the summarizer is invoked.
C5_SmallDocumentReturnedAsIs ==
    (HasExtracted /\ AtMost(ExtractedTokens, Whole(MaxTokens))) =>
        /\ pd_pc = "done"
        /\ pd_out = PdfReturn("full_text", Extracted, NoNote)
        /\ pd_calls = <<>>

\* A document of exactly 8000 tokens, a focus query given, returned whole.
C5_Witness ==
    /\ HasExtracted
    /\ ExtractedTokens = Whole(MaxTokens)
    /\ QueryGiven(pd_in.query)
    /\ pd_pc = "done"
    /\ pd_out.kind = "full_text"

\* C6: for a document of more than 8000 tokens and no focus query the filter
\* is never invoked; the chunker gets the original text and every chunk it
\* returns is passed to the summarizer, in order.
C6_NoQuerySkipsFilter ==
    (HasExtracted /\ ~AtMost(ExtractedTokens, Whole(MaxTokens))
                  /\ ~QueryGiven(pd_in.query)) =>
        LET chunks == chunk_text_intelligently(Extracted, PdfChunkTokens, 200,
                                               pd_in.enc)
        IN /\ CallsTo("filter") = {}
           /\ pd_pc \in {"summarize", "done"} =>
                 /\ pd_calls[1].component = "chunker"
                 /\ pd_calls[1].text = Extracted
           /\ pd_pc = "done" =>
                 /\ Len(pd_calls) = 1 + Len(chunks)
                 /\ \A i \in 1..Len(chunks) :
                       /\ pd_calls[i + 1].component = "summarizer"
                       /\ pd_calls[i + 1].text = chunks[i]

\* A document of 8001 tokens, no query: chunked and summarized, in more than
\* one chunk.
C6_Witness ==
    /\ HasExtracted
    /\ ExtractedTokens = Whole(MaxTokens + 1)
    /\ ~QueryGiven(pd_in.query)
    /\ pd_pc = "done"
    /\ pd_out.kind = "processed"
    /\ Cardinality(CallsTo("summarizer")) >= 2

\* C7: for a document of more than 8000 tokens and a focus query, a filter
\* output of at most 8000 tokens is returned, annotated with the filtered
\* and the original token counts, and neither the chunker nor the summarizer
\* is invoked; a filter output of more than 8000 tokens goes on, and it is
\* that output, not the original, that is chunked.
C7_FilterStopsOrFeedsChunker ==
    (HasExtracted /\ ~AtMost(ExtractedTokens, Whole(MaxTokens))
                  /\ QueryGiven(pd_in.query)) =>
        LET filtered == extract_relevant_sections(Extracted, pd_in.query, pd_in.enc)
            filtered_tokens == count_tokens(filtered, pd_in.enc)
        IN IF AtMost(filtered_tokens, Whole(MaxTokens))
           THEN /\ CallsTo("chunker") = {} /\ CallsTo("summarizer") = {}
                /\ pd_pc = "done" =>
                      /\ pd_out = PdfReturn("filtered", filtered,
                                      [NoNote EXCEPT !.filtered = filtered_tokens,
                                                     !.original = ExtractedTokens])
                      /\ Len(pd_calls) = 1 /\ pd_calls[1].component = "filter"
           ELSE /\ \A i \in CallsTo("chunker") : pd_calls[i].text = filtered
                /\ pd_pc = "done" =>
                      /\ pd_out.kind = "processed"
                      /\ CallsTo("chunker") # {}

\* A focus query, a filter output above 8000 tokens that differs from the
\* original: the run went on to the chunker and ended with summaries.
C7_Witness ==
    /\ HasExtracted
    /\ QueryGiven(pd_in.query)
    /\ pd_pc = "done"
    /\ pd_out.kind = "processed"
    /\ \E i \in CallsTo("chunker") : pd_calls[i].text # Extracted

\* The strings read_pdf returns.
PdfStrings ==
    {"bucket_error", "download_error", "no_pages_error", "no_text_warning",
     "full_text", "filtered", "processed", "encrypted_error",
     "processing_error", "read_pdf_error"}

\* C8: read_pdf never raises past its boundary: whatever its collaborators
\* do, what it ends with is a string.
C8_ReadPdfNeverRaises ==
    pd_pc = "done" => (~pd_out.raised /\ pd_out.kind \in PdfStrings)

\* A run in which the model call failed on a chunk and the report came back
\* all the same.
C8_Witness ==
    /\ pd_pc = "done"
    /\ pd_out.kind = "processed"
    /\ \E i \in CallsTo("summarizer") : pd_calls[i].llm = "raise"

\* ------------------------------------------------------ claims: query_csv
\* The request was an objective request.
ObjectiveRequest ==
    qc_pc # "idle" /\ qc_in.bucket /\ qc_in.objective /\ ~qc_in.sql_query

\* A fatal setup error happened somewhere in the request: schema analysis
\* could not fetch or read the file, or the executor could not.
FatalSetupError ==
    \/ qc_env.analysis \in {"no_bytes", "unreadable"}
    \/ ex_pc = "done" /\ ex_env.setup \in {"no_bytes", "raised"}

\* C10: in an objective request a fatal setup error at any point, a fetch
\* that fails after an earlier fetch succeeded included, aborts the request:
\* what comes back is a single error string, not a report with a schema
\* section or an execution-step section.
C10_FatalSetupErrorAborts ==
    (ObjectiveRequest /\ qc_pc = "done" /\ FatalSetupError) =>
        /\ qc_out.kind # "report"
        /\ ~qc_out.sections.schema_section
        /\ ~qc_out.sections.steps_section

\* The request failed totally: it ended in one of the error strings, in "[]"
\* for an empty dataset, or in a report whose executor run did not succeed.
TotalFailure ==
    \/ qc_out.kind \in {"bucket_error", "arguments_error", "schema_error",
                        "download_error", "import_error", "empty_data_error",
                        "parser_error", "read_error", "duckdb_suggestion",
                        "duckdb_error", "execution_error", "outer_error"}
    \/ qc_out.kind = "report" /\ ~results.success

\* C11: whenever a tabular request fails totally (no bucket, no query and no
\* objective, file not fetchable, dataset unreadable or empty, query
\* rejected, critical executor error) the text returned holds "Error:".
C11_TotalFailureSaysError ==
    (qc_pc = "done" /\ TotalFailure) => HasErrorPrefix(qc_out, results, qc_env)

\* C12: every session a request opens is closed before the request returns,
\* on every return path, in the direct-query path and in the executor.
C12_SessionsClosedOnReturn ==
    qc_pc = "done" => (qc_con # "open" /\ con # "open")

\* ------------------------------------------- claims: analyze_csv_schema
\* The analyzer has returned a schema.
Analyzed == sa_pc = "done" /\ sa_out.kind = "schema"

\* The keywords the analyzer tests a name against for a category.
AnalyzerKeywords(category) ==
    CASE category = "company" -> keywords_company
      [] category = "product" -> keywords_product
      [] category = "country" -> keywords_country
      [] category = "approval" -> keywords_approval
      [] category = "date" -> keywords_date
      [] category = "status" -> keywords_status

\* The first category, in the fixed order, one of whose keywords the name
\* holds; "other" when there is none.
FirstCategory(col, Keywords(_)) ==
    LET hit == {i \in 1..Len(Categories) :
                    AnyIn(Keywords(Categories[i]), lower(col))}
    IN  IF hit = {} THEN "other"
        ELSE Categories[CHOOSE i \in hit : \A j \in hit : i <= j]

\* The buckets of a schema that list the column.
BucketsOf(schema, col) == {b \in Buckets : InSeq(col, schema.key_columns[b])}

\* The matcher's keywords for a category.
MatcherKeywords(category) == common_patterns[category]

\* C17: the bucket the analyzer puts a column in is the category the matcher's
\* fallback classifies the column's name into, "other" standing for no
\* category: the two apply one keyword rule in one order.
C17_AnalyzerAgreesWithMatcher ==
    Analyzed =>
        \A i \in 1..Len(sa_out.schema.columns) :
            LET col == sa_out.schema.columns[i]
            IN  BucketsOf(sa_out.schema, col)
                    = {FirstCategory(col, MatcherKeywords)}

\* C18: every column of the schema is in exactly one bucket of key_columns,
\* the first category in the fixed order whose keyword its name holds, and
\* "other" when no keyword is in the name.
C18_ExactlyOneBucket ==
    Analyzed =>
        \A i \in 1..Len(sa_out.schema.columns) :
            LET col == sa_out.schema.columns[i]
            IN  /\ BucketsOf(sa_out.schema, col)
                      = {FirstCategory(col, AnalyzerKeywords)}
                /\ Cardinality({k \in 1..Len(sa_out.schema.columns) :
                                   sa_out.schema.columns[k] = col}) = 1
                /\ \A b \in Buckets :
                      Cardinality({k \in 1..Len(sa_out.schema.key_columns[b]) :
                                      sa_out.schema.key_columns[b][k] = col}) <= 1

\* C18's case: a schema with a column whose name holds the keywords of two
\* categories, "Approval Date", filed under the earlier one, and a column of
\* no keyword filed under "other".
C18_Witness ==
    /\ Analyzed
    /\ sa_out.schema.columns = <<ColApprovalDate, ColPlainName>>
    /\ sa_out.schema.key_columns["approval"] = <<ColApprovalDate>>
    /\ sa_out.schema.key_columns["date"] = <<>>
    /\ sa_out.schema.key_columns["other"] = <<ColPlainName>>

\* --------------------------------------- claims: find_best_column_match
\* The matcher has returned.
Matched == cm_pc = "done"

\* C19: when some entry of the list is the target but for case, the matcher
\* returns an entry that is the target but for case, in its own spelling,
\* never another column and never none.
C19_CaseInsensitiveEntryReturned ==
    Matched =>
        ((\E i \in 1..Len(cm_in.available_columns) :
              lower(cm_in.available_columns[i]) = lower(cm_in.target))
         => /\ cm_out # None
            /\ lower(cm_out) = lower(cm_in.target))

\* -------------------------------------------- claims: create_query_plan
\* The plan has been built.
Planned == pl_pc \in {"execute", "done"}

\* The schema the plan was built for, and the plan's steps.
PlanSchema == SchemaOf(pl_in.df)
Steps == pl_out.plan.steps

\* The objective's first token in capitals, or None.
EntityToken ==
    IF potential_products(pl_in.objective) = <<>> THEN None
    ELSE potential_products(pl_in.objective)[1]

\* The columns whose name holds both words.
ColumnsNamed(a, b) ==
    {PlanSchema.columns[i] : i \in
        {k \in 1..Len(PlanSchema.columns) :
            /\ InStr(a, lower(PlanSchema.columns[k]))
            /\ InStr(b, lower(PlanSchema.columns[k]))}}
BrandNameColumns == ColumnsNamed(WordBrand, WordName)
GenericNameColumns == ColumnsNamed(WordGeneric, WordName)

\* The columns a step's query filters on.
WhereColumns(step) == {step.sql.where[i] : i \in 1..Len(step.sql.where)}

\* Step i counts the distinct values of the first company column over the
\* rows where one of the given columns holds the token.
CountsCompanies(i, columns) ==
    /\ Steps[i].sql.select = "count_distinct"
    /\ Steps[i].sql.column = PlanSchema.key_columns["company"][1]
    /\ WhereColumns(Steps[i]) = columns
    /\ Steps[i].sql.token = upper(EntityToken)
\* Step i lists them.
ListsCompanies(i, columns) ==
    /\ Steps[i].sql.select = "distinct"
    /\ Steps[i].sql.column = PlanSchema.key_columns["company"][1]
    /\ WhereColumns(Steps[i]) = columns
    /\ Steps[i].sql.token = upper(EntityToken)

\* C13: for an objective that holds "how many companies" and a token in
\* capitals, and a schema with a company column and a brand-name or
\* generic-name column, the plan has a step counting the distinct companies
\* over the rows where any brand-name or generic-name column holds the
\* token, followed by a step listing them under the same filter.
C13_CountAndListOverAllNameColumns ==
    (/\ Planned
     /\ InStr(WordHowManyCompanies, lower(pl_in.objective))
     /\ EntityToken # None
     /\ PlanSchema.key_columns["company"] # <<>>
     /\ BrandNameColumns \cup GenericNameColumns # {})
    => \E i \in 1..(Len(Steps) - 1) :
          /\ CountsCompanies(i, BrandNameColumns \cup GenericNameColumns)
          /\ ListsCompanies(i + 1, BrandNameColumns \cup GenericNameColumns)

\* Step i searches the rows of the table for the token in one column.
Searches(i, col) ==
    /\ Steps[i].sql.select = "rows"
    /\ Steps[i].sql.where = <<col>>
    /\ Steps[i].sql.token = upper(EntityToken)

\* C14: when the objective holds a token in capitals, the plan has one search
\* step for every brand-name column and one for every generic-name column;
\* the search of the first product column is there only when the schema has
\* no brand-name and no generic-name column.
C14_SearchEveryNameColumn ==
    (Planned /\ EntityToken # None) =>
        /\ \A col \in BrandNameColumns \cup GenericNameColumns :
              Cardinality({i \in 1..Len(Steps) : Searches(i, col)}) = 1
        /\ \A i \in 1..Len(Steps) :
              Steps[i].sql.select = "rows"
              => \/ Steps[i].sql.where[1]
                        \in BrandNameColumns \cup GenericNameColumns
                 \/ /\ BrandNameColumns \cup GenericNameColumns = {}
                    /\ PlanSchema.key_columns["product"] # <<>>
                    /\ Steps[i].sql.where
                          = <<PlanSchema.key_columns["product"][1]>>

\* The scenario: Company, BrandName, Generic Name; four registrations, Acme
\* holding the product by its brand name and Bolt by its generic name.
Scenario ==
    /\ pl_in.objective = AskHowManyTiarotec
    /\ pl_in.df = Fixture(<<ColCompany, ColBrandName, ColGenericName>>)

\* The companies of the scenario that hold the token in the given column.
CompaniesBy(col) ==
    {pl_in.df.rows[r][1].v : r \in
        {k \in 1..Len(pl_in.df.rows) :
            LET cell == pl_in.df.rows[k][ColumnIndex(pl_in.df, col)]
            IN  cell.k = "text" /\ InStr(upper(EntityToken), upper(cell.v))}}

\* The report's "### Final Answer: **n** companies" line.
FinalAnswerIs(n) ==
    \E k \in 1..Len(pl_out.results.final_answer) :
        /\ pl_out.results.final_answer[k].kind = "final"
        /\ pl_out.results.final_answer[k].value = n

\* C15: in the scenario the plan has a brand-name search, a generic-name
\* search, a combined count and a combined listing, and its run on the
\* fixture, where two companies match, one by each column, ends with
\* "Final Answer: **2** companies".
C15_ScenarioAnswersTwo ==
    (pl_pc = "done" /\ Scenario) =>
        /\ \E i \in 1..Len(Steps) : Searches(i, ColBrandName)
        /\ \E i \in 1..Len(Steps) : Searches(i, ColGenericName)
        /\ \E i \in 1..(Len(Steps) - 1) :
              /\ CountsCompanies(i, {ColBrandName, ColGenericName})
              /\ ListsCompanies(i + 1, {ColBrandName, ColGenericName})
        /\ FinalAnswerIs(2)

\* C15's case: the scenario has run, and in its fixture one company matches
\* by the brand name and another by the generic name.
C15_Witness ==
    /\ pl_pc = "done"
    /\ Scenario
    /\ CompaniesBy(ColBrandName) = {ValAcme}
    /\ CompaniesBy(ColGenericName) = {ValBolt}
    /\ pl_out.results.success

\* The words of the objective, lower-cased.
Asked(word) == InStr(word, lower(pl_in.objective))

\* C16 (as the planner does it): expected_result_type is
\* numeric_count_with_details when the objective holds "how many" or
\* "count", list_of_items when it holds neither but holds "list" or
\* "what are", and general_information otherwise.
C16_ResultTypeByHowManyOrCount ==
    Planned =>
        pl_out.plan.expected_result_type =
            IF Asked(WordHowMany) \/ Asked(WordCount)
            THEN "numeric_count_with_details"
            ELSE IF Asked(WordList) \/ Asked(WordWhatAre)
            THEN "list_of_items"
            ELSE "general_information"

\* C16's case: "List companies" holds a word of the structure step, none of
\* "how many" and "count", and a listing word: a list of items is expected.
C16_Witness ==
    /\ Planned
    /\ pl_in.objective = AskListCompanies
    /\ Asked(WordCompanies) /\ ~Asked(WordHowMany) /\ ~Asked(WordCount)
    /\ pl_out.plan.expected_result_type = "list_of_items"

\* C16 (as stated): expected_result_type is numeric_count_with_details when
\* the objective holds one of "how many", "count", "companies", "products",
\* list_of_items when it holds none of them but "list" or "what are", and
\* general_information otherwise.
C16_ResultTypeByCountingVocabulary ==
    Planned =>
        pl_out.plan.expected_result_type =
            IF \/ Asked(WordHowMany) \/ Asked(WordCount)
               \/ Asked(WordCompanies) \/ Asked(WordProducts)
            THEN "numeric_count_with_details"
            ELSE IF Asked(WordList) \/ Asked(WordWhatAre)
            THEN "list_of_items"
            ELSE "general_information"

\* ------------------------------------- claims: extract_relevant_sections
\* C20: for every text and every query that is not empty, the text the
\* filter returns counts at most 8000 tokens, whether sections were selected
\* or the first 8000 characters were returned in their place.
C20_FilterOutputWithinBudget ==
    (fl_pc = "done" /\ QueryGiven(fl_in.query)) =>
        AtMost(count_tokens(fl_out, fl_in.enc), Whole(MaxTokens))
\* --------------------------------------------- claims: read_pdf, scenarios
\* C21: for a document of 12,000 tokens and no focus query the filter is not
\* invoked, the report has at least two numbered sections, and the processed
\* token count of its note is below the original token count of its note.
C21_TwelveThousandTokensNoQuery ==
    (HasExtracted /\ ExtractedTokens = Whole(ScenarioTokens)
                  /\ ~QueryGiven(pd_in.query) /\ pd_pc = "done") =>
        /\ CallsTo("filter") = {}
        /\ pd_out.kind = "processed"
        /\ pd_out.note.sections >= 2
        /\ ~AtMost(pd_out.note.original, pd_out.note.processed)

\* ------------------------------------------ claims: the chunker's arguments
\* C22: the chunks are a function of the text and max_chunk_tokens only: a
\* call and the next call with the same text and the same max_chunk_tokens
\* return the same chunks in the same order, whatever overlap_tokens is.
C22_SameTextSameChunks ==
    [][(/\ ck_pc = "done" /\ ck_pc' = "again"
        /\ ck_in'.text = ck_in.text
        /\ ck_in'.max_chunk_tokens = ck_in.max_chunk_tokens)
       => ck_out' = ck_out]_ck_vars

\* ------------------------------------------ claims: the Final Answer line
\* The lines of a report that are "### Final Answer" lines.
FinalLines(answer) ==
    {k \in 1..Len(answer) : answer[k].kind = "final"}

\* The steps of the finished run that executed, passed validation and whose
\* validation hint holds "count".
CountHinted ==
    {i \in 1..Len(pl_out.results.steps_executed) :
        /\ pl_out.results.steps_executed[i].success
        /\ pl_out.results.steps_executed[i].validation_passed
        /\ InStr(WordCount, lower(pl_out.plan.steps[i].validation))}

\* C23: when the objective is a counting question (it holds "how many"), the
\* Final Answer line shows the first value of the first step, in plan order,
\* that executed, passed validation and carries a count validation hint; a
\* step without a count hint never supplies the value.
C23_FinalAnswerFromCountHintedStep ==
    (pl_pc = "done" /\ InStr(WordHowMany, lower(pl_in.objective))) =>
        LET answer == pl_out.results.final_answer
            srs == pl_out.results.steps_executed
        IN  /\ CountHinted # {} => FinalLines(answer) # {}
            /\ \A k \in FinalLines(answer) :
                  /\ answer[k].step \in CountHinted
                  /\ \A i \in CountHinted : answer[k].step <= i
                  /\ answer[k].value = srs[answer[k].step].result.rows[1].value

\* --------------------------------------------- claims: the executor's steps
\* The steps the loop has been through whose query returned (did not raise).
StepsThatRan == {i \in 1..Len(step_results) : ~ex_env.raised[i]}

\* C24: a step whose validation hint holds neither "count" nor "list" passes
\* validation whenever its query executed without exception, an empty result
\* set included, which is recorded as the empty JSON array and not as an
\* error.
C24_UnhintedStepPassesWhenItRan ==
    \A i \in StepsThatRan :
        ex_plan.steps[i].hint = "none" =>
            /\ step_results[i].success
            /\ step_results[i].result.json
            /\ step_results[i].validation_passed

\* The steps that ran and whose result failed validation.
FailedValidation ==
    {i \in StepsThatRan : ~step_results[i].validation_passed}

\* The entries of a list of the report that are about step i.
EntriesOf(list, i) == {k \in 1..Len(list) : list[k].step = i}

\* C25: a step that executed and failed validation adds one warning and no
\* error, is kept in steps_executed with success true, gives no line to the
\* answer, and the steps after it are executed and, when they pass, are in
\* the answer.
C25_ValidationFailureIsAWarning ==
    \A i \in FailedValidation :
        /\ step_results[i].success
        /\ Cardinality(EntriesOf(results.warnings, i)) = 1
        /\ \A k \in EntriesOf(results.warnings, i) :
              results.warnings[k].kind = "validation"
        /\ EntriesOf(results.errors, i) = {}
        /\ ex_pc = "done" =>
              /\ Len(results.steps_executed) = Len(ex_plan.steps)
              /\ results.steps_executed[i].success
              /\ ~results.steps_executed[i].validation_passed
              /\ EntriesOf(results.final_answer, i) = {}
              /\ \A j \in (i + 1)..Len(step_results) :
                    (step_results[j].success /\ step_results[j].validation_passed)
                        => \E k \in EntriesOf(results.final_answer, j) :
                              results.final_answer[k].kind = "finding"

\* A finished run whose first step failed validation and whose second step
\* passed and is in the answer.
C25_Witness ==
    /\ ex_pc = "done"
    /\ 1 \in FailedValidation
    /\ Len(step_results) = 2
    /\ step_results[2].success /\ step_results[2].validation_passed
    /\ EntriesOf(results.final_answer, 2) # {}
    /\ results.success

\* The steps the loop has been through whose query raised.
StepsThatRaised == {i \in 1..Len(step_results) : ex_env.raised[i]}

\* C26: a step whose query raises is recorded with success false and
\* validation_passed false and adds exactly one entry to errors, so that the
\* errors are as many as the failed steps; a column-name suggestion goes to
\* warnings, never to errors, and only for a failure that quotes a name for
\* which the Column Matcher returned a column.
C26_OneErrorPerFailedStep ==
    ex_env.setup = "ok" =>
        /\ \A i \in StepsThatRaised :
              /\ ~step_results[i].success
              /\ ~step_results[i].validation_passed
              /\ Cardinality(EntriesOf(results.errors, i)) = 1
        /\ Len(results.errors) =
              Cardinality({i \in 1..Len(step_results) : ~step_results[i].success})
        /\ \A k \in 1..Len(results.errors) : results.errors[k].kind = "step"
        /\ \A k \in 1..Len(results.warnings) :
              results.warnings[k].kind = "suggestion" =>
                  /\ results.warnings[k].step \in StepsThatRaised
                  /\ ex_env.failures[results.warnings[k].step].quoted
                  /\ ex_env.failures[results.warnings[k].step].match

\* A finished run of two failed steps: the first got a suggestion, the
\* second quoted a name the Column Matcher found nothing for.
C26_Witness ==
    /\ ex_pc = "done"
    /\ ex_env.setup = "ok"
    /\ StepsThatRaised = {1, 2}
    /\ ex_env.failures[2].column_not_found /\ ex_env.failures[2].quoted
    /\ ~ex_env.failures[2].match
    /\ Len(results.errors) = 2
    /\ Len(results.warnings) = 1
    /\ results.warnings[1] = [kind |-> "suggestion", step |-> 1]

\* ------------------------------ claims: extract_relevant_sections' ranking
\* The scored sections of the call, in the order the text has them.
Scored == ScoredSections(SplitBeforeHeaders(fl_in.text), 1, fl_in.query)

\* The place of the i-th scored section in the ranking: after every section
\* of a higher score and every earlier section of the same score.
RankOf(i) ==
    1 + Cardinality({j \in 1..Len(Scored) :
                        \/ Scored[j].score > Scored[i].score
                        \/ Scored[j].score = Scored[i].score /\ j < i})

\* The ranking: descending score, ties in encounter order.
Ranking ==
    [k \in 1..Len(Scored) |->
        Scored[CHOOSE i \in 1..Len(Scored) : RankOf(i) = k].section]

\* The tokens of the first m sections of the ranking, as the loop adds them.
RECURSIVE RankingTokens(_)
RankingTokens(m) ==
    IF m = 0 THEN Whole(0)
    ELSE Plus(RankingTokens(m - 1), count_tokens(Ranking[m], fl_in.enc))

\* The longest prefix of the ranking whose tokens are within the budget.
FittingPrefix ==
    CHOOSE m \in 0..Len(Scored) :
        /\ AtMost(RankingTokens(m), Whole(MaxTokens))
        /\ m < Len(Scored) => ~AtMost(RankingTokens(m + 1), Whole(MaxTokens))

\* C27: the sections selected are the longest prefix of the ranking (by
\* descending score, ties in encounter order) whose running token total stays
\* within 8000; a section after the first that overflows is not selected,
\* even one that would fit.  The text returned is that prefix, joined.
C27_SelectedIsPrefixOfRanking ==
    (fl_pc = "done" /\ QueryGiven(fl_in.query)) =>
        IF FittingPrefix > 0
        THEN fl_out = JoinWith(Divider, SubSeq(Ranking, 1, FittingPrefix))
        ELSE fl_out = Take(fl_in.text, MaxTokens)

\* A call where the second section of the ranking overflowed the budget and
\* the third, which would have fitted, was left out.
C27_Witness ==
    /\ fl_pc = "done" /\ QueryGiven(fl_in.query)
    /\ Len(Scored) = 3
    /\ FittingPrefix = 1
    /\ AtMost(Plus(count_tokens(Ranking[1], fl_in.enc),
                   count_tokens(Ranking[3], fl_in.enc)), Whole(MaxTokens))
    /\ fl_out = Ranking[1]

\* A call where the ranking differs from the text's order: a section of a
\* lower score came first in the text and was left out for want of room.
C27_RankedWitness ==
    /\ fl_pc = "done" /\ QueryGiven(fl_in.query)
    /\ Len(Scored) = 3
    /\ Ranking[3] = Scored[1].section
    /\ FittingPrefix = 2

\* ------------------------------------ claims: read_pdf's summarizing stage
\* The summarizer's calls of the run, in the order they were made.
SummarizerCalls ==
    SelectSeq(pd_calls, LAMBDA call : call.component = "summarizer")

\* The chunker has run.
Chunked == pd_pc = "summarize" \/ (pd_pc = "done" /\ CallsTo("chunker") # {})

\* What section i may hold: the tag "[SECTION i]" and then an answer of the
\* model, stripped, or the truncation of chunk i when there is no key or the
\* model call failed.
SectionsFor(i) ==
    IF SummarizerCalls[i].llm = "content"
    THEN {<<Tag(i)>> \o Strip(llm.content) :
             llm \in {o \in PdfLlmOutcomes : o.kind = "content"}}
    ELSE {<<Tag(i)>> \o Truncated(pd_chunks[i])}

\* Between two states: a call of the summarizer is one call, on the chunk
\* after the last one summarized, and its section is there when the step is
\* over.
OneCallAtATime ==
    pd_calls' # pd_calls /\ pd_pc = "summarize" =>
        /\ pd_calls' = Append(pd_calls,
                           CallOf("summarizer", pd_chunks[Len(pd_sums) + 1],
                                  pd_calls'[Len(pd_calls')].llm))
        /\ Len(pd_sums') = Len(pd_sums) + 1
        /\ pd_chunks' = pd_chunks

\* At every point of the stage: the calls made so far are on chunks 1, 2, ...
\* in order, one each; section i holds the summary or the truncation of
\* chunk i under the number i; and a finished stage has a section for every
\* chunk, whatever failed on the way.
SectionsFollowChunks ==
    Chunked =>
        /\ Len(SummarizerCalls) = Len(pd_sums)
        /\ Len(pd_sums) <= Len(pd_chunks)
        /\ \A i \in 1..Len(pd_sums) :
              /\ SummarizerCalls[i].text = pd_chunks[i]
              /\ pd_sums[i] \in SectionsFor(i)
        /\ pd_pc = "done" =>
              /\ pd_out.kind = "processed"
              /\ Len(pd_sums) = Len(pd_chunks)
              /\ pd_out.note.sections = Len(pd_chunks)
              /\ pd_out.text = <<PBreak, Rule>> \o JoinWith(<<PBreak>>, pd_sums)

\* C28: in the chunk and summarize stage the summarizer is invoked once per
\* chunk, in chunk order, one call returning before the next starts; the
\* output has one section per chunk, numbered 1..n, section i holding the
\* summary or the truncation fallback of chunk i; a failure of the summarizer
\* on one chunk does not stop the chunks after it.
C28_OneSummaryPerChunkInOrder ==
    []SectionsFollowChunks /\ [][OneCallAtATime]_vars

\* A finished report of two sections or more: the model call failed on the
\* first chunk, which was truncated, and answered on the second.
C28_Witness ==
    /\ pd_pc = "done"
    /\ pd_out.kind = "processed"
    /\ Len(pd_sums) >= 2
    /\ SummarizerCalls[1].llm = "raise"
    /\ SummarizerCalls[2].llm = "content"
    /\ pd_sums[1] = <<Tag(1)>> \o Truncated(pd_chunks[1])

\* ------------------------------------ claims: create_query_plan's order
\* The most steps a plan may have.
MostSteps == 1 + 1 + 2 + 2

\* What a step is, read from its query: the structure-discovery step lists
\* the columns; the exploration step takes distinct values with no filter;
\* a search step takes rows; the count step counts distinct values; the
\* listing step takes distinct values under a filter.
StepKind(step) ==
    CASE step.sql.select = "columns" -> "structure"
      [] step.sql.select = "distinct" /\ step.sql.where = <<>> -> "explore"
      [] step.sql.select = "rows" -> "search"
      [] step.sql.select = "count_distinct" -> "count"
      [] step.sql.select = "distinct" /\ step.sql.where # <<>> -> "list"

\* The place of each kind in the fixed order.
KindOrder(kind) ==
    CASE kind = "structure" -> 1
      [] kind = "explore" -> 2
      [] kind = "search" -> 3
      [] kind = "count" -> 4
      [] kind = "list" -> 5

StepsOfKind(kind) == {i \in 1..Len(Steps) : StepKind(Steps[i]) = kind}

\* C29: the steps of a plan come in a fixed relative order: the
\* structure-discovery step, when present, first; then the company
\* exploration step; then the search steps; then the count step and, right
\* after it, the listing step, as the last two; and at most 6 steps in all.
C29_StepsInFixedOrder ==
    Planned =>
        /\ Len(Steps) <= MostSteps
        /\ \A i, j \in 1..Len(Steps) :
              i < j => KindOrder(StepKind(Steps[i])) <= KindOrder(StepKind(Steps[j]))
        /\ StepsOfKind("structure") \subseteq {1}
        /\ Cardinality(StepsOfKind("explore")) <= 1
        /\ Cardinality(StepsOfKind("search")) <= 2
        /\ \/ StepsOfKind("count") = {} /\ StepsOfKind("list") = {}
           \/ /\ Len(Steps) >= 2
              /\ StepsOfKind("count") = {Len(Steps) - 1}
              /\ StepsOfKind("list") = {Len(Steps)}

\* A plan of all six steps: structure, exploration, two searches, count, list.
C29_Witness ==
    /\ Planned
    /\ Len(Steps) = MostSteps
    /\ [i \in 1..Len(Steps) |-> StepKind(Steps[i])]
          = <<"structure", "explore", "search", "search", "count", "list">>

\* ------------------------------------------- claims: query_csv's dispatch
\* Nothing of the file has been asked for and no session exists.
FileUntouched ==
    /\ qc_env.fetches = <<>>
    /\ qc_env.analysis = "pending"
    /\ qc_con = "none" /\ con = "none"

\* No plan has been built or handed to the executor.
NoPlan == ex_pc = "idle" /\ ex_plan = <<>> /\ step_results = <<>>

\* The positions of the two paths.
DirectQueryPath == {"sql_analyze", "sql_download", "sql_load", "sql_run"}
PlanningPath == {"analyze", "plan", "executing"}

\* C30: query_csv chooses its path from its arguments before it touches the
\* file.  Without a bucket it returns an error string, the file not fetched
\* and no session opened; with neither a direct query nor an objective, the
\* same; with both, the direct-query path is taken and no plan is built or
\* executed; with an objective only, the planning path is taken.
C30_DispatchOnArguments ==
    qc_pc # "idle" =>
        /\ qc_pc = "start" => (FileUntouched /\ NoPlan)
        /\ ~qc_in.bucket =>
              /\ qc_pc \in {"start", "done"}
              /\ FileUntouched /\ NoPlan
              /\ qc_pc = "done" => qc_out = CsvReturn("bucket_error")
        /\ (qc_in.bucket /\ ~qc_in.sql_query /\ ~qc_in.objective) =>
              /\ qc_pc \in {"start", "done"}
              /\ FileUntouched /\ NoPlan
              /\ qc_pc = "done" => qc_out = CsvReturn("arguments_error")
        /\ (qc_in.bucket /\ qc_in.sql_query /\ qc_in.objective) =>
              /\ qc_pc \in {"start", "done"} \cup DirectQueryPath
              /\ NoPlan
              /\ qc_pc = "done" =>
                    qc_out.kind \notin {"report", "schema_error",
                                        "arguments_error", "bucket_error"}
        /\ (qc_in.bucket /\ ~qc_in.sql_query /\ qc_in.objective) =>
              /\ qc_pc \in {"start", "done"} \cup PlanningPath
              /\ qc_con = "none"
              /\ qc_pc = "done" => qc_out.kind \in {"report", "schema_error"}

\* A request with both a direct query and an objective that ended in the
\* listing of the query's rows, the file fetched and no plan made.
C30_Witness ==
    /\ qc_pc = "done"
    /\ qc_in.bucket /\ qc_in.sql_query /\ qc_in.objective
    /\ qc_out.kind = "results"
    /\ qc_env.fetches # <<>>
    /\ NoPlan

====
